---- MODULE Spec2Model ----
(***************************************************************************)
(* The VM translator of projetc7 (parser.rs, code_writer.rs, main.rs) as a *)
(* state machine, together with the Hack machine on which the emitted      *)
(* assembly text is executed, and the assembler of project6 (parser.rs,    *)
(* symbol_table.rs, code.rs, main.rs).                                     *)
(*                                                                         *)
(* A line of assembly text is a record                                     *)
(*   kind = "//"  comment, text in sym (and num when it ends in a number)  *)
(*   kind = "A"   @<sym><num>                                              *)
(*   kind = "C"   dest=comp;jump                                           *)
(*   kind = "L"   (<sym><num>)                                             *)
(*   kind = ""    blank line                                               *)
(* sym is the literal text the format string supplies, num the integer a   *)
(* `{}` placeholder prints after it (<<>> when there is none).             *)
(***************************************************************************)
EXTENDS Integers, Sequences, FiniteSets, TLC

VARIABLES
    input_file,     \* main.rs: the path given to translate, as characters
    lines,          \* Parser.lines: the token lists of the non-empty lines
    current_line,   \* Parser.current_line
    cached_parts,   \* Parser.cached_parts
    output_file,    \* CodeWriter.output_file: the text written so far
    label_counter,  \* CodeWriter.label_counter
    filename,       \* CodeWriter.filename
    pc,             \* position of translate: created, loop, closed, panicked
    blocks,         \* history: per dispatched command, the text range it wrote
    cpu,            \* the Hack machine: registers A, D, PC and the RAM
    entry,          \* history: the machine when the last executed block began
    trace,          \* history: ROM addresses executed by the last block
    boot,           \* history: the machine as it was started
    executed,       \* number of blocks executed so far, -1 before the start
    peer,           \* a second run of translate, with its own Parser and
                    \* CodeWriter: the fields above, as a record
    asm             \* the assembler of project6: the lines read, the
                    \* position of main, the locals of the two passes, the
                    \* symbol table and the words written, as a record

vars == <<input_file, lines, current_line, cached_parts, output_file,
          label_counter, filename, pc, blocks, cpu, entry, trace, boot,
          executed, peer, asm>>

parser_vars == <<lines, current_line, cached_parts>>
writer_vars == <<output_file, label_counter, filename>>
cpu_vars == <<cpu, entry, trace, boot, executed>>

(***************************************************************************)
(* Bounds of the model.                                                    *)
(***************************************************************************)
MaxCmds == 2

MaxIndex == 1

(***************************************************************************)
(* Words of the target machine.                                            *)
(***************************************************************************)
WordSize == 65536

Word(n) == n % WordSize

Signed(w) == IF w >= WordSize \div 2 THEN w - WordSize ELSE w

(***************************************************************************)
(* Lines of text.                                                          *)
(***************************************************************************)
Line(k, s, n, d, c, j) ==
    [kind |-> k, sym |-> s, num |-> n, dest |-> d, comp |-> c, jump |-> j]

Comment(t) == Line("//", t, <<>>, "", "", "")

CommentN(t, n) == Line("//", t, <<n>>, "", "", "")

At(s) == Line("A", s, <<>>, "", "", "")

AtN(s, n) == Line("A", s, <<n>>, "", "", "")

Set(d, c) == Line("C", "", <<>>, d, c, "")

Jmp(c, j) == Line("C", "", <<>>, "", c, j)

Label(s, n) == Line("L", s, <<n>>, "", "", "")

Blank == Line("", "", <<>>, "", "", "")

(***************************************************************************)
(* code_writer.rs: SegmentSymbol.                                          *)
(***************************************************************************)
Segments ==
    {"local", "argument", "this", "that", "temp", "pointer", "static", "constant"}

\* SegmentSymbol::from_str: the variant, or "None"
from_str(segment) == IF segment \in Segments THEN segment ELSE "None"

BaseSegments == {"local", "argument", "this", "that"}

\* SegmentSymbol::symbol
symbol(seg) ==
    CASE seg = "local" -> "LCL"
      [] seg = "argument" -> "ARG"
      [] seg = "this" -> "THIS"
      [] seg = "that" -> "THAT"
      [] seg = "temp" -> "R5"
      [] seg = "pointer" -> "THIS"
      [] seg = "static" -> "STATIC"
      [] seg = "constant" -> "CONSTANT"

(***************************************************************************)
(* code_writer.rs: the text each method writes.  A method yields           *)
(* [ok, text]: text is what it appended to output_file, ok is FALSE when   *)
(* it panicked (after writing text).                                       *)
(***************************************************************************)
Ok(t) == [ok |-> TRUE, text |-> t]

Panic(t) == [ok |-> FALSE, text |-> t]

\* write_push_d incrementing SP before the store
write_push_d_early ==
    << Comment("push the value into stack"),
       At("SP"), Set("M", "M+1"), Set("A", "M"), Set("M", "D") >>

write_push_d ==
    << Comment("push the value into stack"),
       At("SP"), Set("A", "M"), Set("M", "D"),
       At("SP"), Set("M", "M+1") >>

\* write_pop_to_d reading the top cell and leaving SP where it is
write_pop_to_d_peek ==
    << Comment("get the top element of stack"),
       At("SP"), Set("A", "M-1"), Set("D", "M") >>

write_pop_to_d ==
    << Comment("get the top element of stack"),
       At("SP"), Set("M", "M-1"), Set("A", "M"), Set("D", "M") >>

\* the head shared by write_binary_op and write_comparison: right operand
\* to R14, left operand to R13, D = left, A = R14
PopTwo ==
    << Comment("get the top element of stack"),
       At("SP"), Set("M", "M-1"), Set("A", "M"), Set("D", "M"),
       Comment("store the result temporarily"),
       At("R14"), Set("M", "D"),
       Comment("get the top element of stack"),
       At("SP"), Set("M", "M-1"), Set("A", "M"), Set("D", "M"),
       Comment("store the result temporarily"),
       At("R13"), Set("M", "D"),
       At("R13"), Set("D", "M"),
       At("R14") >>

\* write_binary_op with the scratch cells read in the other order
write_binary_op_swapped(operation) ==
    SubSeq(PopTwo, 1, Len(PopTwo) - 3)
      \o << At("R14"), Set("D", "M"), At("R13"), Set("D", operation) >>
      \o write_push_d \o << Blank >>

write_binary_op(operation) ==
    PopTwo \o << Set("D", operation) >> \o write_push_d \o << Blank >>

\* write_unary_op with the operands of the negation exchanged
write_unary_op_d_minus_a(is_neg) ==
    write_pop_to_d
      \o (IF is_neg THEN << AtN("", 0), Set("D", "D-A") >>
                    ELSE << Set("D", "!D") >>)
      \o write_push_d \o << Blank >>

\* write_unary_op with a decrement in place of the negation
write_unary_op_decrement(is_neg) ==
    write_pop_to_d
      \o (IF is_neg THEN << AtN("", 0), Set("D", "D-1") >>
                    ELSE << Set("D", "!D") >>)
      \o write_push_d \o << Blank >>

\* write_unary_op keeping its operand in R13 as the binary operators do
write_unary_op_scratch(is_neg) ==
    write_pop_to_d
      \o << At("R13"), Set("M", "D") >>
      \o (IF is_neg THEN << AtN("", 0), Set("D", "A-D") >>
                    ELSE << Set("D", "!D") >>)
      \o write_push_d \o << Blank >>

write_unary_op(is_neg) ==
    write_pop_to_d
      \o (IF is_neg THEN << AtN("", 0), Set("D", "A-D") >>
                    ELSE << Set("D", "!D") >>)
      \o write_push_d \o << Blank >>

label_prefix(jump) ==
    CASE jump = "JEQ" -> "EQ"
      [] jump = "JGT" -> "GT"
      [] jump = "JLT" -> "LT"
      [] OTHER -> jump

\* the text of write_comparison with the two sentinels exchanged
ComparisonText_exchanged(jump, label_num) ==
    PopTwo \o
    << Set("D", "D-M"),
       AtN(label_prefix(jump), label_num),
       Jmp("D", jump),
       Comment("push the value into stack"),
       At("SP"), Set("A", "M"), Set("M", "-1"),
       At("SP"), Set("M", "M+1"),
       AtN("END" \o label_prefix(jump), label_num),
       Jmp("0", "JMP"),
       Label(label_prefix(jump), label_num),
       Comment("push the value into stack"),
       At("SP"), Set("A", "M"), Set("M", "0"),
       At("SP"), Set("M", "M+1"),
       Label("END" \o label_prefix(jump), label_num),
       Blank >>

\* the text of write_comparison without the jump over the true branch
ComparisonText_no_goto(jump, label_num) ==
    PopTwo \o
    << Set("D", "D-M"),
       AtN(label_prefix(jump), label_num),
       Jmp("D", jump),
       Comment("push the value into stack"),
       At("SP"), Set("A", "M"), Set("M", "0"),
       At("SP"), Set("M", "M+1"),
       Label(label_prefix(jump), label_num),
       Comment("push the value into stack"),
       At("SP"), Set("A", "M"), Set("M", "-1"),
       At("SP"), Set("M", "M+1"),
       Label("END" \o label_prefix(jump), label_num),
       Blank >>

\* the text of write_comparison, label_num the counter value it read
ComparisonText(jump, label_num) ==
    PopTwo \o
    << Set("D", "D-M"),
       AtN(label_prefix(jump), label_num),
       Jmp("D", jump),
       Comment("push the value into stack"),
       At("SP"), Set("A", "M"), Set("M", "0"),
       At("SP"), Set("M", "M+1"),
       AtN("END" \o label_prefix(jump), label_num),
       Jmp("0", "JMP"),
       Label(label_prefix(jump), label_num),
       Comment("push the value into stack"),
       At("SP"), Set("A", "M"), Set("M", "-1"),
       At("SP"), Set("M", "M+1"),
       Label("END" \o label_prefix(jump), label_num),
       Blank >>

\* write_comparison leaving the counter as it read it
write_comparison_stale(jump, counter) ==
    [ok |-> TRUE, text |-> ComparisonText(jump, counter),
     label_counter |-> counter]

\* write_comparison: reads the counter, increments it, writes the text
write_comparison(jump, counter) ==
    [ok |-> TRUE, text |-> ComparisonText(jump, counter),
     label_counter |-> counter + 1]

Comparisons == {"eq", "gt", "lt"}

\* Keep counting every command
Keep_counting(r, counter) ==
    [ok |-> r.ok, text |-> r.text, label_counter |-> counter + 1]

\* the result of a method that leaves the counter alone
Keep(r, counter) ==
    [ok |-> r.ok, text |-> r.text, label_counter |-> counter]

\* write_arithmetic: [ok, text, label_counter]
write_arithmetic(command, counter) ==
    LET echo == << Comment("vm command:" \o command) >>
        body ==
          CASE command = "add" -> Keep(Ok(write_binary_op("D+M")), counter)
            [] command = "sub" -> Keep(Ok(write_binary_op("D-M")), counter)
            [] command = "and" -> Keep(Ok(write_binary_op("D&M")), counter)
            [] command = "or" -> Keep(Ok(write_binary_op("D|M")), counter)
            [] command = "neg" -> Keep(Ok(write_unary_op(TRUE)), counter)
            [] command = "not" -> Keep(Ok(write_unary_op(FALSE)), counter)
            [] command = "eq" -> write_comparison("JEQ", counter)
            [] command = "gt" -> write_comparison("JGT", counter)
            [] command = "lt" -> write_comparison("JLT", counter)
            [] OTHER -> Keep(Panic(<<>>), counter)
    IN  [ok |-> body.ok,
         text |-> echo \o body.text,
         label_counter |-> body.label_counter]

\* write_push reading the base of temp from RAM[5]
write_push_temp_indirect(segment, index, unit) ==
    LET seg == from_str(segment) IN
    CASE seg = "constant" ->
           Ok(<< AtN("", index), Set("D", "A") >> \o write_push_d)
      [] seg \in BaseSegments \cup {"temp"} ->
           Ok(<< At(IF seg = "temp" THEN "R5" ELSE symbol(seg)), Set("D", "M"),
                 AtN("", index), Set("A", "D+A"), Set("D", "M") >>
              \o write_push_d)
      [] seg = "pointer" ->
           Ok(<< At("THIS"), Set("D", "A"),
                 AtN("", index), Set("A", "D+A"), Set("D", "M") >>
              \o write_push_d)
      [] seg = "static" ->
           Ok(<< AtN(unit \o ".", index), Set("D", "M") >> \o write_push_d)
      [] OTHER -> Panic(<<>>)

write_push(segment, index, unit) ==
    LET seg == from_str(segment) IN
    CASE seg = "constant" ->
           Ok(<< AtN("", index), Set("D", "A") >> \o write_push_d)
      [] seg \in BaseSegments ->
           Ok(<< At(symbol(seg)), Set("D", "M"),
                 AtN("", index), Set("A", "D+A"), Set("D", "M") >>
              \o write_push_d)
      [] seg = "temp" ->
           Ok(<< At("R5"), Set("D", "A"),
                 AtN("", index), Set("A", "D+A"), Set("D", "M") >>
              \o write_push_d)
      [] seg = "pointer" ->
           Ok(<< At("THIS"), Set("D", "A"),
                 AtN("", index), Set("A", "D+A"), Set("D", "M") >>
              \o write_push_d)
      [] seg = "static" ->
           Ok(<< AtN(unit \o ".", index), Set("D", "M") >> \o write_push_d)
      [] OTHER -> Panic(<<>>)

\* the tail keeping the address in R15
PopViaR13_r15 ==
    << Comment("store the result temporarily"), At("R15"), Set("M", "D") >>
      \o write_pop_to_d
      \o << Comment("store the top value"),
            At("R15"), Set("A", "M"), Set("M", "D") >>

\* the tail of the address-computing arms of write_pop
PopViaR13 ==
    << Comment("store the result temporarily"), At("R13"), Set("M", "D") >>
      \o write_pop_to_d
      \o << Comment("store the top value"),
            At("R13"), Set("A", "M"), Set("M", "D") >>

\* write_pop treating constant as it treats static
write_pop_constant(segment, index, unit) ==
    LET seg == from_str(segment) IN
    CASE seg \in BaseSegments ->
           Ok(<< At(symbol(seg)), Set("D", "M"),
                 AtN("", index), Set("D", "D+A") >> \o PopViaR13)
      [] seg = "temp" ->
           Ok(<< AtN("", 5), Set("D", "A"),
                 AtN("", index), Set("D", "D+A") >> \o PopViaR13)
      [] seg = "pointer" ->
           Ok(<< At("THIS"), Set("D", "A"),
                 AtN("", index), Set("D", "D+A") >> \o PopViaR13)
      [] seg \in {"static", "constant"} ->
           Ok(write_pop_to_d \o << AtN(unit \o ".", index), Set("M", "D") >>)
      [] OTHER -> Panic(<<>>)

write_pop(segment, index, unit) ==
    LET seg == from_str(segment) IN
    CASE seg \in BaseSegments ->
           Ok(<< At(symbol(seg)), Set("D", "M"),
                 AtN("", index), Set("D", "D+A") >> \o PopViaR13)
      [] seg = "temp" ->
           Ok(<< AtN("", 5), Set("D", "A"),
                 AtN("", index), Set("D", "D+A") >> \o PopViaR13)
      [] seg = "pointer" ->
           Ok(<< At("THIS"), Set("D", "A"),
                 AtN("", index), Set("D", "D+A") >> \o PopViaR13)
      [] seg = "static" ->
           Ok(write_pop_to_d \o << AtN(unit \o ".", index), Set("M", "D") >>)
      [] OTHER -> Panic(<<>>)

\* write_push_pop without the comment line
write_push_pop_unechoed(command, segment, index, unit) ==
    LET body == IF command = "push" THEN write_push(segment, index, unit)
                ELSE IF command = "pop" THEN write_pop(segment, index, unit)
                ELSE Ok(<<>>)
    IN  IF body.ok THEN Ok(body.text \o << Blank >>)
        ELSE Panic(body.text)

write_push_pop(command, segment, index, unit) ==
    LET echo == << CommentN("vm command:" \o command \o " " \o segment \o " ",
                            index) >>
        body == IF command = "push" THEN write_push(segment, index, unit)
                ELSE IF command = "pop" THEN write_pop(segment, index, unit)
                ELSE Ok(<<>>)
    IN  IF body.ok THEN Ok(echo \o body.text \o << Blank >>)
        ELSE Panic(echo \o body.text)


(***************************************************************************)
(* Text as characters: a token or a path that the code inspects character  *)
(* by character is a sequence of one-character strings.                    *)
(***************************************************************************)
RECURSIVE Str(_)
Str(cs) == IF cs = <<>> THEN "" ELSE cs[1] \o Str(Tail(cs))

Digits == {"0", "1", "2", "3", "4", "5", "6", "7", "8", "9"}

DigitValue(c) ==
    CASE c = "0" -> 0 [] c = "1" -> 1 [] c = "2" -> 2 [] c = "3" -> 3
      [] c = "4" -> 4 [] c = "5" -> 5 [] c = "6" -> 6 [] c = "7" -> 7
      [] c = "8" -> 8 [] c = "9" -> 9

RECURSIVE Decimal(_, _)
Decimal(cs, acc) ==
    IF cs = <<>> THEN acc ELSE Decimal(Tail(cs), 10 * acc + DigitValue(cs[1]))

\* str::parse::<i32>: an optional sign, then one or more digits, in range
parse_i32(tok) ==
    LET signed == tok # <<>> /\ tok[1] \in {"+", "-"}
        digits == IF signed THEN Tail(tok) ELSE tok
        value == IF signed /\ tok[1] = "-" THEN 0 - Decimal(digits, 0)
                 ELSE Decimal(digits, 0)
    IN  IF digits = <<>> \/ \E i \in 1..Len(digits) : digits[i] \notin Digits
        THEN [ok |-> FALSE, val |-> 0]
        ELSE IF value > 2147483647 \/ value < -2147483647 - 1
        THEN [ok |-> FALSE, val |-> 0]
        ELSE [ok |-> TRUE, val |-> value]

\* the index of the last occurrence of c in cs, 0 when there is none
RECURSIVE LastIndexOf(_, _)
LastIndexOf(cs, c) ==
    IF cs = <<>> THEN 0
    ELSE IF cs[Len(cs)] = c THEN Len(cs)
    ELSE LastIndexOf(SubSeq(cs, 1, Len(cs) - 1), c)

\* Path::file_stem of a path without trailing separators: the last
\* component, cut before its last dot unless that dot begins the name
file_stem(path) ==
    LET name == SubSeq(path, LastIndexOf(path, "/") + 1, Len(path))
        dot == LastIndexOf(name, ".")
    IN  IF name = <<>> \/ name = <<".", ".">> THEN << >>
        ELSE IF dot <= 1 THEN name
        ELSE SubSeq(name, 1, dot - 1)

\* CodeWriter::set_filename
set_filename(path) ==
    IF file_stem(path) = <<>> THEN "Unknown" ELSE Str(file_stem(path))

(***************************************************************************)
(* parser.rs.  A line is its list of whitespace-separated tokens; the      *)
(* first two are strings, the third (the index) a sequence of characters.  *)
(***************************************************************************)
command_type(parts) ==
    CASE parts[1] = "push" -> "Push"
      [] parts[1] = "pop" -> "Pop"
      [] parts[1] = "label" -> "Label"
      [] parts[1] = "goto" -> "Goto"
      [] parts[1] = "if-goto" -> "If"
      [] parts[1] = "function" -> "Function"
      [] parts[1] = "return" -> "Return"
      [] parts[1] = "call" -> "Call"
      [] OTHER -> "Arithmetic"

\* Parser::arg1: [ok, val], ok FALSE when it panics
arg1(parts) ==
    CASE command_type(parts) = "Arithmetic" -> [ok |-> TRUE, val |-> parts[1]]
      [] command_type(parts) = "Return" -> [ok |-> FALSE, val |-> ""]
      [] OTHER -> IF Len(parts) > 1 THEN [ok |-> TRUE, val |-> parts[2]]
                  ELSE [ok |-> FALSE, val |-> ""]

\* Parser::arg2: [ok, val], ok FALSE when it panics
arg2(parts) ==
    IF command_type(parts) \in {"Push", "Pop", "Function", "Call"}
    THEN IF Len(parts) > 2 THEN parse_i32(parts[3])
         ELSE [ok |-> FALSE, val |-> 0]
    ELSE [ok |-> FALSE, val |-> 0]

has_more_commands == current_line < Len(lines)


(***************************************************************************)
(* project6: the symbol table and the first pass, which give the symbols   *)
(* of the emitted text their addresses.                                    *)
(***************************************************************************)
\* the text of the operand of an A- or L-line
Text(l) == l.sym \o (IF l.num = <<>> THEN "" ELSE ToString(l.num[1]))

\* symbol_table.rs: PREDEFINED_SYMBOLS
PREDEFINED_SYMBOLS ==
    [n \in {"R0", "R1", "R2", "R3", "R4", "R5", "R6", "R7", "R8", "R9", "R10",
            "R11", "R12", "R13", "R14", "R15", "SP", "LCL", "ARG", "THIS",
            "THAT", "SCREEN", "KBD"} |->
        CASE n = "R0" -> 0 [] n = "R1" -> 1 [] n = "R2" -> 2 [] n = "R3" -> 3
          [] n = "R4" -> 4 [] n = "R5" -> 5 [] n = "R6" -> 6 [] n = "R7" -> 7
          [] n = "R8" -> 8 [] n = "R9" -> 9 [] n = "R10" -> 10
          [] n = "R11" -> 11 [] n = "R12" -> 12 [] n = "R13" -> 13
          [] n = "R14" -> 14 [] n = "R15" -> 15
          [] n = "SP" -> 0 [] n = "LCL" -> 1 [] n = "ARG" -> 2
          [] n = "THIS" -> 3 [] n = "THAT" -> 4
          [] n = "SCREEN" -> 16384 [] n = "KBD" -> 24576]

\* SymbolTable::add_entry on the user symbols
add_entry(user_symbols, name, address) ==
    [n \in DOMAIN user_symbols \cup {name} |->
        IF n = name THEN address ELSE user_symbols[n]]

\* SymbolTable::get_or_insert leaving next_address as it was on an insert
get_or_insert_fixed(user_symbols, name, next_address) ==
    IF name \in DOMAIN PREDEFINED_SYMBOLS
    THEN [addr |-> PREDEFINED_SYMBOLS[name], user_symbols |-> user_symbols,
          next_address |-> next_address]
    ELSE IF name \in DOMAIN user_symbols
    THEN [addr |-> user_symbols[name], user_symbols |-> user_symbols,
          next_address |-> next_address]
    ELSE [addr |-> next_address,
          user_symbols |-> add_entry(user_symbols, name, next_address),
          next_address |-> next_address]

\* SymbolTable::get_or_insert without the look among the predefined symbols
get_or_insert_unguarded(user_symbols, name, next_address) ==
    IF name \in DOMAIN user_symbols
    THEN [addr |-> user_symbols[name], user_symbols |-> user_symbols,
          next_address |-> next_address]
    ELSE [addr |-> next_address,
          user_symbols |-> add_entry(user_symbols, name, next_address),
          next_address |-> Word(next_address + 1)]

\* SymbolTable::get_or_insert: [addr, user_symbols, next_address]
get_or_insert(user_symbols, name, next_address) ==
    IF name \in DOMAIN PREDEFINED_SYMBOLS
    THEN [addr |-> PREDEFINED_SYMBOLS[name], user_symbols |-> user_symbols,
          next_address |-> next_address]
    ELSE IF name \in DOMAIN user_symbols
    THEN [addr |-> user_symbols[name], user_symbols |-> user_symbols,
          next_address |-> next_address]
    ELSE [addr |-> next_address,
          user_symbols |-> add_entry(user_symbols, name, next_address),
          next_address |-> Word(next_address + 1)]

\* parser.rs (project6): an A- or C-command, as classify_command finds it
IsInstruction(l) == l.kind \in {"A", "C"}

\* the number of instructions in the text: the ROM address after it
RomSize(text) == Cardinality({ i \in DOMAIN text : IsInstruction(text[i]) })

\* main.rs (project6) first_pass: the user symbols after the lines of text.
\* The loop over the lines is unfolded by halves: the labels of the second
\* half are entered after those of the first, at the addresses that follow
\* the instructions of the first.
RECURSIVE first_pass(_, _, _)
first_pass(text, rom_address, user_symbols) ==
    CASE text = <<>> -> user_symbols
      [] Len(text) = 1 ->
           IF text[1].kind = "L"
           THEN add_entry(user_symbols, Text(text[1]), rom_address)
           ELSE user_symbols
      [] OTHER ->
           LET half == Len(text) \div 2
               left == SubSeq(text, 1, half)
               before == first_pass(left, rom_address, user_symbols)
               after == first_pass(SubSeq(text, half + 1, Len(text)),
                                   Word(rom_address + RomSize(left)), <<>>)
           IN  [n \in DOMAIN before \cup DOMAIN after |->
                   IF n \in DOMAIN after THEN after[n] ELSE before[n]]

\* main.rs (project6) second_pass, lines 87-89: a decimal literal that
\* parses as u16 is the address, anything else is looked up or inserted
IsLiteral(l) == l.sym = "" /\ l.num # <<>> /\ l.num[1] \in 0..(WordSize - 1)

\* one instruction of the ROM image
Instruction(kind, val, dest, comp, jump) ==
    [kind |-> kind, val |-> val, dest |-> dest, comp |-> comp, jump |-> jump]

\* The second pass over the text: A-commands with their operands resolved
\* as main.rs (project6) lines 83-89 resolve them, C-commands as written,
\* label lines producing no word.  Yields the ROM image, the user symbols
\* and the next free variable address; the loop is unfolded by halves.
RECURSIVE Resolve(_, _, _)
Resolve(text, user_symbols, ram_address) ==
    CASE text = <<>> ->
           [rom |-> <<>>, user_symbols |-> user_symbols,
            ram_address |-> ram_address]
      [] Len(text) = 1 /\ text[1].kind = "A" /\ IsLiteral(text[1]) ->
           [rom |-> << Instruction("A", text[1].num[1], "", "", "") >>,
            user_symbols |-> user_symbols, ram_address |-> ram_address]
      [] Len(text) = 1 /\ text[1].kind = "A" /\ ~IsLiteral(text[1]) ->
           LET r == get_or_insert(user_symbols, Text(text[1]), ram_address)
           IN  [rom |-> << Instruction("A", r.addr, "", "", "") >>,
                user_symbols |-> r.user_symbols,
                ram_address |-> r.next_address]
      [] Len(text) = 1 /\ text[1].kind = "C" ->
           [rom |-> << Instruction("C", 0, text[1].dest, text[1].comp,
                                   text[1].jump) >>,
            user_symbols |-> user_symbols, ram_address |-> ram_address]
      [] Len(text) = 1 /\ text[1].kind \notin {"A", "C"} ->
           [rom |-> <<>>, user_symbols |-> user_symbols,
            ram_address |-> ram_address]
      [] OTHER ->
           LET half == Len(text) \div 2
               left == Resolve(SubSeq(text, 1, half), user_symbols,
                               ram_address)
               right == Resolve(SubSeq(text, half + 1, Len(text)),
                                left.user_symbols, left.ram_address)
           IN  [rom |-> left.rom \o right.rom,
                user_symbols |-> right.user_symbols,
                ram_address |-> right.ram_address]

\* the ROM image of the text
LoadRom(text, user_symbols, ram_address) ==
    Resolve(text, user_symbols, ram_address).rom

Rom(text) == LoadRom(text, first_pass(text, 0, <<>>), 16)

\* the user symbols once the text is assembled: labels and variables
Variables(text, user_symbols, ram_address) ==
    Resolve(text, user_symbols, ram_address).user_symbols

\* SymbolTable::get_address on the table the assembled text leaves
AddressOf(text, name) ==
    IF name \in DOMAIN PREDEFINED_SYMBOLS THEN PREDEFINED_SYMBOLS[name]
    ELSE LET user_symbols == Variables(text, first_pass(text, 0, <<>>), 16)
         IN  IF name \in DOMAIN user_symbols THEN user_symbols[name] ELSE 0

(***************************************************************************)
(* The Hack machine: what the instructions that code.rs encodes do.        *)
(***************************************************************************)
Read(ram, a) == IF a \in DOMAIN ram THEN ram[a] ELSE 0

Write(ram, a, v) ==
    [b \in DOMAIN ram \cup {a} |-> IF b = a THEN v ELSE ram[b]]

RECURSIVE Bits(_, _)
Bits(w, n) == IF n = 0 THEN <<>> ELSE Bits(w \div 2, n - 1) \o << w % 2 >>

RECURSIVE FromBits(_)
FromBits(bs) ==
    IF bs = <<>> THEN 0
    ELSE 2 * FromBits(SubSeq(bs, 1, Len(bs) - 1)) + bs[Len(bs)]

And16(x, y) ==
    LET bx == Bits(x, 16)
        by == Bits(y, 16)
    IN  FromBits([i \in 1..16 |-> IF bx[i] = 1 /\ by[i] = 1 THEN 1 ELSE 0])

Or16(x, y) ==
    LET bx == Bits(x, 16)
        by == Bits(y, 16)
    IN  FromBits([i \in 1..16 |-> IF bx[i] = 1 \/ by[i] = 1 THEN 1 ELSE 0])

Not16(x) == WordSize - 1 - x

\* code.rs COMP_MAP: the value of each computation mnemonic; an unknown
\* mnemonic is encoded as DEFAULT_COMP, which computes 0
Comp(c, a, d, m) ==
    CASE c = "0" -> 0
      [] c = "1" -> 1
      [] c = "-1" -> WordSize - 1
      [] c = "D" -> d
      [] c = "A" -> a
      [] c = "!D" -> Not16(d)
      [] c = "!A" -> Not16(a)
      [] c = "-D" -> Word(WordSize - d)
      [] c = "-A" -> Word(WordSize - a)
      [] c = "D+1" -> Word(d + 1)
      [] c = "A+1" -> Word(a + 1)
      [] c = "D-1" -> Word(d + WordSize - 1)
      [] c = "A-1" -> Word(a + WordSize - 1)
      [] c = "D+A" -> Word(d + a)
      [] c = "D-A" -> Word(d + WordSize - a)
      [] c = "A-D" -> Word(a + WordSize - d)
      [] c = "D&A" -> And16(d, a)
      [] c = "D|A" -> Or16(d, a)
      [] c = "M" -> m
      [] c = "!M" -> Not16(m)
      [] c = "-M" -> Word(WordSize - m)
      [] c = "M+1" -> Word(m + 1)
      [] c = "M-1" -> Word(m + WordSize - 1)
      [] c = "D+M" -> Word(d + m)
      [] c = "D-M" -> Word(d + WordSize - m)
      [] c = "M-D" -> Word(m + WordSize - d)
      [] c = "D&M" -> And16(d, m)
      [] c = "D|M" -> Or16(d, m)
      [] OTHER -> 0

\* code.rs JUMP_MAP: whether the jump is taken on the computed value
Taken(j, v) ==
    CASE j = "JGT" -> Signed(v) > 0
      [] j = "JEQ" -> v = 0
      [] j = "JGE" -> Signed(v) >= 0
      [] j = "JLT" -> Signed(v) < 0
      [] j = "JNE" -> v # 0
      [] j = "JLE" -> Signed(v) <= 0
      [] j = "JMP" -> TRUE
      [] OTHER -> FALSE

\* code.rs DEST_MAP: the registers a destination mnemonic names
Dests(d) ==
    CASE d = "M" -> {"M"}
      [] d = "D" -> {"D"}
      [] d = "MD" -> {"M", "D"}
      [] d = "A" -> {"A"}
      [] d = "AM" -> {"A", "M"}
      [] d = "AD" -> {"A", "D"}
      [] d = "AMD" -> {"A", "M", "D"}
      [] OTHER -> {}

\* one instruction; a word whose top bit is set is no A-instruction (see
\* encode_a_instruction) and stops the machine here (PC = -1)
Step(m, ins) ==
    IF ins.kind = "A"
    THEN IF ins.val < WordSize \div 2
         THEN [m EXCEPT !.A = ins.val, !.PC = m.PC + 1]
         ELSE [m EXCEPT !.PC = -1]
    ELSE LET v == Comp(ins.comp, m.A, m.D, Read(m.ram, m.A))
             to == Dests(ins.dest)
         IN  [A |-> IF "A" \in to THEN v ELSE m.A,
              D |-> IF "D" \in to THEN v ELSE m.D,
              ram |-> IF "M" \in to THEN Write(m.ram, m.A, v) ELSE m.ram,
              PC |-> IF Taken(ins.jump, v) THEN m.A ELSE m.PC + 1]

\* run from m until PC = stop, PC leaves the ROM, or the fuel is spent;
\* yields the machine and the addresses executed
RECURSIVE Run(_, _, _, _, _)
Run(rom, m, stop, fuel, tr) ==
    IF m.PC = stop \/ m.PC < 0 \/ m.PC >= Len(rom) \/ fuel = 0
    THEN [cpu |-> m, trace |-> tr]
    ELSE Run(rom, Step(m, rom[m.PC + 1]), stop, fuel - 1, Append(tr, m.PC))


(***************************************************************************)
(* main.rs: translate.  One action per arm of the loop's match; an action  *)
(* is the whole iteration: advance, classify, fetch the arguments, write.  *)
(***************************************************************************)
Block(from, to, ok) == [from |-> from, to |-> to, ok |-> ok]

\* what a loop iteration does with the result r = [ok, text] of the writer
Emit(parts, r, counter) ==
    /\ current_line' = current_line + 1
    /\ cached_parts' = parts
    /\ output_file' = output_file \o r.text
    /\ label_counter' = counter
    /\ blocks' = Append(blocks,
                        Block(Len(output_file), Len(output_file) + Len(r.text),
                              r.ok))
    /\ pc' = IF r.ok THEN "loop" ELSE "panicked"
    /\ UNCHANGED <<input_file, lines, filename, cpu_vars, peer, asm>>

\* the step of translate that leaves the unit name as CodeWriter::new made it
SetFilename_unset ==
    /\ pc = "created"
    /\ pc' = "loop"
    /\ UNCHANGED <<input_file, parser_vars, output_file, label_counter,
                   filename, blocks, cpu_vars, peer, asm>>

\* translate, line 33
SetFilename ==
    /\ pc = "created"
    /\ filename' = set_filename(input_file)
    /\ pc' = "loop"
    /\ UNCHANGED <<input_file, parser_vars, output_file, label_counter,
                   blocks, cpu_vars, peer, asm>>

\* translate, lines 39-42
StepArithmetic ==
    /\ pc = "loop"
    /\ has_more_commands
    /\ LET parts == lines[current_line + 1] IN
       /\ command_type(parts) = "Arithmetic"
       /\ LET r == write_arithmetic(arg1(parts).val, label_counter)
          IN  Emit(parts, r, r.label_counter)

\* the push and pop arms: arg1, then arg2, then write_push_pop
PushPop(command, parts) ==
    IF ~arg1(parts).ok \/ ~arg2(parts).ok THEN Panic(<<>>)
    ELSE write_push_pop(command, arg1(parts).val, arg2(parts).val, filename)

\* translate, lines 43-47
StepPush ==
    /\ pc = "loop"
    /\ has_more_commands
    /\ LET parts == lines[current_line + 1] IN
       /\ command_type(parts) = "Push"
       /\ Emit(parts, PushPop("push", parts), label_counter)

\* translate, lines 48-52
StepPop ==
    /\ pc = "loop"
    /\ has_more_commands
    /\ LET parts == lines[current_line + 1] IN
       /\ command_type(parts) = "Pop"
       /\ Emit(parts, PushPop("pop", parts), label_counter)

\* the default arm writing a note into the text and counting it
StepOther_noting ==
    /\ pc = "loop"
    /\ has_more_commands
    /\ LET parts == lines[current_line + 1] IN
       /\ command_type(parts) \notin {"Arithmetic", "Push", "Pop"}
       /\ Emit(parts, Ok(<< Comment("not implemented") >>),
               label_counter + 1)

\* translate, lines 53-59: a warning on stderr, nothing written
StepOther ==
    /\ pc = "loop"
    /\ has_more_commands
    /\ LET parts == lines[current_line + 1] IN
       /\ command_type(parts) \notin {"Arithmetic", "Push", "Pop"}
       /\ Emit(parts, Ok(<<>>), label_counter)

\* translate, lines 63-64
Close ==
    /\ pc = "loop"
    /\ ~has_more_commands
    /\ pc' = "closed"
    /\ UNCHANGED <<input_file, parser_vars, writer_vars, blocks, cpu_vars,
                   peer, asm>>

(***************************************************************************)
(* The inputs.                                                             *)
(***************************************************************************)
Mnemonics == {"add", "sub", "and", "or", "neg", "not", "eq", "gt", "lt"}

ControlLines ==
    { <<"label", "L">>, <<"goto", "L">>, <<"if-goto", "L">>,
      <<"function", "f", <<"0">>>>, <<"call", "f", <<"0">>>>, <<"return">> }

\* the decimal numeral of n >= 0, as characters
RECURSIVE Numeral(_)
Numeral(n) ==
    IF n < 10 THEN << ToString(n) >>
    ELSE Numeral(n \div 10) \o << ToString(n % 10) >>

\* index tokens that are not numerals of a non-negative integer
BadIndexTokens == { <<"-", "1">>, <<"x">>, <<>> , <<"+", "1">> }

Vocabulary ==
    { <<m>> : m \in Mnemonics \cup {"mul"} }
      \cup { <<c, s, Numeral(MaxIndex)>> :
                c \in {"push", "pop"}, s \in Segments \cup {"heap"} }
      \cup { <<c, "constant", t>> :
                c \in {"push", "pop"}, t \in BadIndexTokens \cup {Numeral(0)} }
      \cup { <<c, "local">> : c \in {"push", "pop"} }
      \cup { <<"push">> }
      \cup ControlLines

SeqsUpTo(S, n) == UNION { [1..k -> S] : k \in 0..n }

Programs == SeqsUpTo(Vocabulary, MaxCmds)

InputFiles == { <<"F", "o", "o", ".", "v", "m">>,
                <<"d", "/", "B", ".", "t", ".", "v", "m">> }

PowerOff == [A |-> 0, D |-> 0, PC |-> 0, ram |-> <<>>]

InitWith(files, programs) ==
    /\ input_file \in files
    /\ lines \in programs
    /\ current_line = 0
    /\ cached_parts = <<>>
    /\ output_file = <<>>
    /\ label_counter = 0
    /\ filename = ""
    /\ pc = "created"
    /\ blocks = <<>>
    /\ cpu = PowerOff
    /\ entry = PowerOff
    /\ trace = <<>>
    /\ boot = PowerOff
    /\ executed = -1

\* a second run that is never started
NoPeer ==
    [input_file |-> <<>>, lines |-> <<>>, current_line |-> 0,
     output_file |-> <<>>, label_counter |-> 0, filename |-> "",
     pc |-> "absent", born |-> 0]

\* the assembler before main has read a file: no line, no symbol, no word
NoAssembler ==
    [lines |-> <<>>, pc |-> "off", cursor |-> 0, rom_address |-> 0,
     ram_address |-> 0, user_symbols |-> <<>>, hack |-> <<>>, calls |-> <<>>]

Init == InitWith(InputFiles, Programs) /\ peer = NoPeer /\ asm = NoAssembler

Next ==
    \/ SetFilename
    \/ StepArithmetic
    \/ StepPush
    \/ StepPop
    \/ StepOther
    \/ Close

Spec == Init /\ [][Next]_vars


(***************************************************************************)
(* Running the translated text: once translate has closed the output, the  *)
(* text is loaded, the machine is started on a stack holding two values,   *)
(* and the blocks are executed one after the other.                        *)
(***************************************************************************)
\* the ROM address at which the text before line n+1 ends
RomAddr(n) == RomSize(SubSeq(output_file, 1, n))

StackValues == {0, 1, 2, 32767, 32768, 65535}

StackPointers == {258, 261}

\* RAM at start: the pointers, the temp and scratch cells, the first static
\* cells, the first cells of each base segment, and a stack whose two top
\* values are x (below) and y (on top)
InitRam(sp, x, y) ==
    [a \in (0..(16 + MaxIndex)) \cup (300..(300 + MaxIndex))
            \cup (400..(400 + MaxIndex)) \cup (3000..(3000 + MaxIndex))
            \cup (3010..(3010 + MaxIndex)) \cup {sp - 2, sp - 1} |->
        CASE a = 0 -> sp
          [] a = 1 -> 300
          [] a = 2 -> 400
          [] a = 3 -> 3000
          [] a = 4 -> 3010
          [] a = sp - 2 -> x
          [] a = sp - 1 -> y
          [] OTHER -> 1000 + a]

InitMachines ==
    { [A |-> 0, D |-> 0, PC |-> 0, ram |-> InitRam(sp, x, y)] :
        sp \in StackPointers, x \in StackValues, y \in StackValues }

Boot ==
    /\ pc = "closed"
    /\ executed = -1
    /\ cpu' \in InitMachines
    /\ entry' = cpu'
    /\ boot' = cpu'
    /\ trace' = <<>>
    /\ executed' = 0
    /\ UNCHANGED <<input_file, parser_vars, writer_vars, pc, blocks, peer, asm>>

ExecBlock ==
    /\ executed >= 0
    /\ executed < Len(blocks)
    /\ cpu.PC = RomAddr(blocks[executed + 1].from)
    /\ LET rom == Rom(output_file)
           r == Run(rom, cpu, RomAddr(blocks[executed + 1].to), Len(rom), <<>>)
       IN  /\ cpu' = r.cpu
           /\ trace' = r.trace
    /\ entry' = cpu
    /\ executed' = executed + 1
    /\ UNCHANGED <<input_file, parser_vars, writer_vars, pc, blocks, boot,
                   peer, asm>>

PushConstant(n) == <<"push", "constant", Numeral(n)>>

\* the end-to-end scenarios of the specification
Scenarios ==
    { << PushConstant(7), PushConstant(2), <<"add">>,
         PushConstant(10), <<"sub">> >>,
      << PushConstant(5), PushConstant(3), <<"sub">> >> }
      \cup { << PushConstant(a), PushConstant(b), <<"eq">> >> :
               a \in 0..(MaxIndex + 1), b \in 0..(MaxIndex + 1) }

\* the first integer an A-instruction cannot hold (code.rs: 15-bit value)
AddressLimit == WordSize \div 2

\* a push followed by the pop of the same segment and index
PushThenPop(s, i) == << <<"push", s, Numeral(i)>>, <<"pop", s, Numeral(i)>> >>

RunPrograms ==
    SeqsUpTo(Vocabulary, 1)
      \cup { << <<c, s, Numeral(i)>> >> :
               c \in {"push", "pop"}, s \in Segments,
               i \in (0..MaxIndex) \cup {AddressLimit} }
      \cup { PushThenPop(s, i) :
               s \in Segments \ {"constant"}, i \in 0..MaxIndex }
      \cup { << <<"neg">>, <<"neg">> >> }
      \cup Scenarios

InitRun ==
    InitWith(InputFiles, RunPrograms) /\ peer = NoPeer /\ asm = NoAssembler

NextRun == Next \/ Boot \/ ExecBlock

SpecRun == InitRun /\ [][NextRun]_vars


(***************************************************************************)
(* Vocabulary of the properties.                                           *)
(***************************************************************************)
SP(m) == Read(m.ram, 0)

\* the value in the top stack cell of machine m
Top(m) == Read(m.ram, SP(m) - 1)

\* the number of values on the stack, which the platform starts at 256
Depth(m) == SP(m) - 256

\* the command whose block was executed last
LastRun == lines[executed]

\* the operands the last executed block found: left below, right on top
Left == Read(entry.ram, SP(entry) - 2)

Right == Read(entry.ram, SP(entry) - 1)

\* the last executed block ran from its first instruction to its end
RanThrough == executed >= 1 /\ cpu.PC = RomAddr(blocks[executed].to)

\* left OP right in 16-bit arithmetic
Apply(op, l, r) ==
    CASE op = "add" -> (l + r) % WordSize
      [] op = "sub" -> (l - r) % WordSize
      [] op = "and" -> And16(l, r)
      [] op = "or" -> Or16(l, r)

(***************************************************************************)
(* C1: add, sub, and, or executed on a stack of at least two values leave  *)
(* SP one lower and left OP right (16-bit arithmetic) on top of the stack; *)
(* sub leaves left minus right.                                            *)
(***************************************************************************)
C1_BinaryOperators ==
    (executed >= 1 /\ LastRun \in {<<"add">>, <<"sub">>, <<"and">>, <<"or">>}
       /\ Depth(entry) >= 2)
    => /\ RanThrough
       /\ SP(cpu) = SP(entry) - 1
       /\ Top(cpu) = Apply(LastRun[1], Left, Right)

\* a sub has run on left = 1, right = 2 and left 1 - 2 = -1 on top
C1_Witness ==
    /\ executed >= 1
    /\ LastRun = <<"sub">>
    /\ Depth(entry) >= 2
    /\ Left = 1
    /\ Right = 2
    /\ Top(cpu) = WordSize - 1


(***************************************************************************)
(* C2: push constant 7, push constant 2, add, push constant 10, sub is     *)
(* translated without error into five blocks in that order; executed from  *)
(* any initial SP the add block pushes 9 and the run ends with SP one      *)
(* above its initial value and -1 in the top stack cell.                   *)
(***************************************************************************)
Scenario7 ==
    << PushConstant(7), PushConstant(2), <<"add">>,
       PushConstant(10), <<"sub">> >>

\* the comment a block opens with: the echo of its command
Echo(parts) ==
    IF Len(parts) = 1 THEN Comment("vm command:" \o parts[1])
    ELSE CommentN("vm command:" \o parts[1] \o " " \o parts[2] \o " ",
                  parse_i32(parts[3]).val)

\* the blocks written so far are non-empty, lie one after the other from
\* the start of the text to its end, and each opens with its own echo
BlocksInOrder ==
    /\ \A k \in 1..Len(blocks) :
          /\ blocks[k].ok
          /\ blocks[k].to > blocks[k].from
          /\ blocks[k].from = (IF k = 1 THEN 0 ELSE blocks[k - 1].to)
          /\ output_file[blocks[k].from + 1] = Echo(lines[k])
    /\ blocks # <<>> => blocks[Len(blocks)].to = Len(output_file)

C2_Scenario ==
    lines = Scenario7 =>
       /\ pc # "panicked"
       /\ BlocksInOrder
       /\ pc = "closed" => Len(blocks) = 5
       /\ executed = 3 => (RanThrough /\ Top(cpu) = 9)
       /\ executed = 5 =>
            (RanThrough /\ SP(cpu) = SP(boot) + 1 /\ Top(cpu) = WordSize - 1)

\* the five blocks have been executed
C2_Witness ==
    /\ lines = Scenario7
    /\ executed = 5
    /\ Top(cpu) = WordSize - 1

(***************************************************************************)
(* C3: neg and not executed on a stack of at least one value x leave SP    *)
(* unchanged and replace the top by the two's-complement negation of x     *)
(* (neg) or the bitwise complement of x (not).                             *)
(***************************************************************************)
C3_UnaryOperators ==
    (executed >= 1 /\ LastRun \in {<<"neg">>, <<"not">>} /\ Depth(entry) >= 1)
    => /\ RanThrough
       /\ SP(cpu) = SP(entry)
       /\ Top(cpu) = (IF LastRun = <<"neg">> THEN (WordSize - Right) % WordSize
                      ELSE WordSize - 1 - Right)

\* a neg has run on x = 1 and left -1
C3_Witness ==
    /\ executed >= 1
    /\ LastRun = <<"neg">>
    /\ Depth(entry) >= 1
    /\ Right = 1
    /\ Top(cpu) = WordSize - 1

(***************************************************************************)
(* C4: the eq block pushes -1 exactly when its two operands are equal as   *)
(* 16-bit words and 0 otherwise; so push constant a, push constant b, eq   *)
(* pushes -1 for a = b = 0 and 0 when one of them is made nonzero.         *)
(***************************************************************************)
EqScenario(a, b) == << PushConstant(a), PushConstant(b), <<"eq">> >>

True16 == WordSize - 1

C4_Eq ==
    /\ (executed >= 1 /\ LastRun = <<"eq">> /\ Depth(entry) >= 2)
       => /\ RanThrough
          /\ SP(cpu) = SP(entry) - 1
          /\ Top(cpu) = (IF Left = Right THEN True16 ELSE 0)
    /\ \A a, b \in 0..(MaxIndex + 1) :
          (lines = EqScenario(a, b) /\ executed = 3)
          => Top(cpu) = (IF a = b THEN True16 ELSE 0)

\* push constant 0, push constant 0, eq has run and pushed -1
C4_Witness ==
    /\ lines = EqScenario(0, 0)
    /\ executed = 3
    /\ Top(cpu) = True16

(***************************************************************************)
(* C5: every execution of an eq, gt or lt block runs exactly one of the    *)
(* two sentinel stores: falling through the conditional jump it stores 0   *)
(* and jumps to the END label without running the -1 store, taking the     *)
(* jump it stores -1 and falls into the END label; either way control      *)
(* reaches the END label with SP one lower than at entry and 0 or -1 on    *)
(* top of the stack.                                                       *)
(***************************************************************************)
\* the ROM addresses of the instructions of the last executed block whose
\* text is one of ls
AddrsOf(ls) ==
    { RomAddr(n - 1) :
        n \in { i \in (blocks[executed].from + 1)..blocks[executed].to :
                  output_file[i] \in ls } }

StoreFalse == { Set("M", "0") }

StoreTrue == { Set("M", "-1") }

Goto == { Jmp("0", "JMP") }

Branch == { Jmp("D", j) : j \in {"JEQ", "JGT", "JLT"} }

\* how often the last executed block ran an instruction at one of addrs
Runs(addrs) == Cardinality({ i \in DOMAIN trace : trace[i] \in addrs })

\* the last block ran its conditional jump and went on to the next address
FellThrough ==
    \E i \in 1..(Len(trace) - 1) :
        trace[i] \in AddrsOf(Branch) /\ trace[i + 1] = trace[i] + 1

\* the address the END label of the last executed block stands for
EndLabelAddrs ==
    { RomAddr(n) :
        n \in { i \in (blocks[executed].from + 1)..blocks[executed].to :
                  /\ output_file[i].kind = "L"
                  /\ output_file[i].sym \in {"ENDEQ", "ENDGT", "ENDLT"} } }

C5_OneSentinel ==
    (executed >= 1 /\ LastRun \in {<<"eq">>, <<"gt">>, <<"lt">>}
       /\ Depth(entry) >= 2)
    => /\ Runs(AddrsOf(StoreFalse) \cup AddrsOf(StoreTrue)) = 1
       /\ Runs(AddrsOf(Branch)) = 1
       /\ FellThrough =>
            /\ Runs(AddrsOf(StoreFalse)) = 1
            /\ Runs(AddrsOf(Goto)) = 1
            /\ Runs(AddrsOf(StoreTrue)) = 0
       /\ ~FellThrough =>
            /\ Runs(AddrsOf(StoreTrue)) = 1
            /\ Runs(AddrsOf(Goto)) = 0
            /\ Runs(AddrsOf(StoreFalse)) = 0
       /\ EndLabelAddrs = {cpu.PC}
       /\ SP(cpu) = SP(entry) - 1
       /\ Top(cpu) \in {0, True16}

\* an lt block has fallen through, stored 0 and jumped to its END label
C5_Witness ==
    /\ executed >= 1
    /\ LastRun = <<"lt">>
    /\ Depth(entry) >= 2
    /\ FellThrough
    /\ Runs(AddrsOf(Goto)) = 1
    /\ Top(cpu) = 0


(***************************************************************************)
(* C6: every comparison command defines two labels that no earlier command *)
(* of the run defined or referenced; after N comparison commands exactly   *)
(* 2N distinct labels have been defined, each exactly once.                *)
(***************************************************************************)
IsComparison(parts) == parts[1] \in Comparisons

\* the comparison commands translated so far
NumComparisons ==
    Cardinality({ k \in 1..current_line : IsComparison(lines[k]) })

\* the lines of the text between from and to that define a label
LabelLines(from, to) == { n \in (from + 1)..to : output_file[n].kind = "L" }

C6_FreshLabels ==
    /\ \A n1, n2 \in LabelLines(0, Len(output_file)) :
          n1 # n2 => Text(output_file[n1]) # Text(output_file[n2])
    /\ Cardinality(LabelLines(0, Len(output_file))) = 2 * NumComparisons
    /\ \A k \in 1..Len(blocks) :
          IsComparison(lines[k]) =>
             /\ Cardinality(LabelLines(blocks[k].from, blocks[k].to)) = 2
             /\ \A n \in LabelLines(blocks[k].from, blocks[k].to) :
                   \A i \in 1..blocks[k].from :
                      output_file[i].kind \in {"A", "L"}
                      => Text(output_file[i]) # Text(output_file[n])

\* two eq commands have been translated and four labels defined
C6_Witness ==
    /\ lines = << <<"eq">>, <<"eq">> >>
    /\ current_line = 2
    /\ Cardinality({ Text(output_file[n]) :
                       n \in LabelLines(0, Len(output_file)) }) = 4

(***************************************************************************)
(* C7: the label counter is 0 after new; a comparison command uses its     *)
(* value as the suffix of its labels and then adds 1 to it; no other       *)
(* operation changes it; so it always equals the number of comparison      *)
(* commands translated so far.                                             *)
(***************************************************************************)
\* the step translates a comparison command
ComparisonStep ==
    /\ current_line' = current_line + 1
    /\ IsComparison(lines[current_line + 1])

\* the text the step appends names labels with the suffix n only
SuffixIs(n) ==
    \A i \in (Len(output_file) + 1)..Len(output_file') :
        (output_file'[i].kind = "L"
           \/ (output_file'[i].kind = "A"
                 /\ output_file'[i].sym \in
                      {"EQ", "GT", "LT", "ENDEQ", "ENDGT", "ENDLT"}))
        => output_file'[i].num = << n >>

C7_LabelCounter ==
    /\ [](pc = "created" => label_counter = 0)
    /\ [](label_counter = NumComparisons)
    /\ [][IF ComparisonStep
          THEN label_counter' = label_counter + 1 /\ SuffixIs(label_counter)
          ELSE label_counter' = label_counter]_vars

\* two comparisons have been translated, with other commands or none
C7_Witness ==
    /\ label_counter = 2
    /\ pc = "closed"

(***************************************************************************)
(* C8: the translation of pop constant N never completes: for every index  *)
(* N, write_push_pop("pop", "constant", N) ends in a panic.                *)
(***************************************************************************)
IsPopConstant(parts) ==
    /\ Len(parts) >= 3
    /\ parts[1] = "pop"
    /\ parts[2] = "constant"
    /\ parse_i32(parts[3]).ok

C8_PopConstantFails ==
    /\ \A k \in 1..Len(blocks) :
          IsPopConstant(lines[k]) => (~blocks[k].ok /\ pc = "panicked")
    /\ pc = "closed" => \A k \in 1..Len(lines) : ~IsPopConstant(lines[k])

\* a pop constant has reached write_push_pop, which panicked
C8_Witness ==
    /\ pc = "panicked"
    /\ IsPopConstant(cached_parts)
    /\ blocks[Len(blocks)].to > blocks[Len(blocks)].from

(***************************************************************************)
(* C9: when the translation of a command fails, no text for that command   *)
(* has been appended to the output: the text is what it was before the     *)
(* command was dispatched.                                                 *)
(***************************************************************************)
C9_NoTextOnFailure ==
    \A k \in 1..Len(blocks) : ~blocks[k].ok => blocks[k].to = blocks[k].from

(***************************************************************************)
(* C10: a push or pop whose index token is absent or is not a non-negative *)
(* integer is rejected by the classifier and never reaches the code        *)
(* writer: nothing is written for it.                                      *)
(***************************************************************************)
IsNonNegative(tok) == parse_i32(tok).ok /\ parse_i32(tok).val >= 0

C10_IndexChecked ==
    \A k \in 1..Len(blocks) :
       (/\ lines[k][1] \in {"push", "pop"}
        /\ (Len(lines[k]) < 3 \/ ~IsNonNegative(lines[k][3])))
       => (~blocks[k].ok /\ blocks[k].to = blocks[k].from)


(***************************************************************************)
(* C11: command_type answers Arithmetic exactly for the lines whose first  *)
(* token is one of the nine mnemonics; a first token that is neither a     *)
(* mnemonic nor one of the eight control keywords is never classified as   *)
(* Arithmetic.                                                             *)
(***************************************************************************)
ControlKeywords ==
    {"push", "pop", "label", "goto", "if-goto", "function", "call", "return"}

C11_ArithmeticOnlyMnemonics ==
    \A k \in 1..current_line :
       /\ command_type(lines[k]) = "Arithmetic" <=> lines[k][1] \in Mnemonics
       /\ lines[k][1] \notin Mnemonics \cup ControlKeywords
          => command_type(lines[k]) # "Arithmetic"

(***************************************************************************)
(* translate as a function of its input: what the loop of main.rs writes   *)
(* for a list of lines, a unit name and a starting label counter.          *)
(***************************************************************************)
\* one iteration of the loop: [ok, text, label_counter]
Dispatch(parts, unit, counter) ==
    CASE command_type(parts) = "Arithmetic" ->
           write_arithmetic(arg1(parts).val, counter)
      [] command_type(parts) \in {"Push", "Pop"} ->
           IF ~arg1(parts).ok \/ ~arg2(parts).ok
           THEN Keep(Panic(<<>>), counter)
           ELSE Keep(write_push_pop(IF command_type(parts) = "Push"
                                    THEN "push" ELSE "pop",
                                    arg1(parts).val, arg2(parts).val, unit),
                     counter)
      [] OTHER -> Keep(Ok(<<>>), counter)

\* the loop from a given counter and text, stopping at the first panic
RECURSIVE translate(_, _, _, _)
translate(cmds, unit, counter, text) ==
    IF cmds = <<>>
    THEN [ok |-> TRUE, text |-> text, label_counter |-> counter]
    ELSE LET r == Dispatch(Head(cmds), unit, counter)
         IN  IF r.ok
             THEN translate(Tail(cmds), unit, r.label_counter, text \o r.text)
             ELSE [ok |-> FALSE, text |-> text \o r.text,
                   label_counter |-> r.label_counter]

(***************************************************************************)
(* Two runs of translate side by side.  Each run has its own Parser and    *)
(* CodeWriter: the second run's are the fields of peer.  The second run    *)
(* may be created at any moment of the first, and the steps of the two     *)
(* interleave freely.                                                      *)
(***************************************************************************)
\* a CodeWriter that takes the label counter of the run beside it
new_continuing ==
    [output_file |-> <<>>, label_counter |-> label_counter, filename |-> ""]

\* CodeWriter::new
new == [output_file |-> <<>>, label_counter |-> 0, filename |-> ""]

\* translate, lines 29-30, for the second run
PeerNew ==
    /\ peer.pc = "absent"
    /\ peer' = [peer EXCEPT !.current_line = 0,
                            !.output_file = new.output_file,
                            !.label_counter = new.label_counter,
                            !.filename = new.filename,
                            !.pc = "created",
                            !.born = label_counter]
    /\ UNCHANGED <<input_file, parser_vars, writer_vars, pc, blocks, cpu_vars,
                   asm>>

\* translate, line 33, for the second run
PeerSetFilename ==
    /\ peer.pc = "created"
    /\ peer' = [peer EXCEPT !.filename = set_filename(peer.input_file),
                            !.pc = "loop"]
    /\ UNCHANGED <<input_file, parser_vars, writer_vars, pc, blocks, cpu_vars,
                   asm>>

\* an iteration of the second run writing with the first run's counter
PeerStep_shared ==
    /\ peer.pc = "loop"
    /\ peer.current_line < Len(peer.lines)
    /\ LET r == Dispatch(peer.lines[peer.current_line + 1], peer.filename,
                         label_counter)
       IN  peer' = [peer EXCEPT !.current_line = peer.current_line + 1,
                                !.output_file = peer.output_file \o r.text,
                                !.label_counter = r.label_counter,
                                !.pc = IF r.ok THEN "loop" ELSE "panicked"]
    /\ UNCHANGED <<input_file, parser_vars, writer_vars, pc, blocks, cpu_vars,
                   asm>>

\* translate, lines 35-61, for the second run: one iteration of the loop
PeerStep ==
    /\ peer.pc = "loop"
    /\ peer.current_line < Len(peer.lines)
    /\ LET r == Dispatch(peer.lines[peer.current_line + 1], peer.filename,
                         peer.label_counter)
       IN  peer' = [peer EXCEPT !.current_line = peer.current_line + 1,
                                !.output_file = peer.output_file \o r.text,
                                !.label_counter = r.label_counter,
                                !.pc = IF r.ok THEN "loop" ELSE "panicked"]
    /\ UNCHANGED <<input_file, parser_vars, writer_vars, pc, blocks, cpu_vars,
                   asm>>

\* translate, lines 63-64, for the second run
PeerClose ==
    /\ peer.pc = "loop"
    /\ peer.current_line = Len(peer.lines)
    /\ peer' = [peer EXCEPT !.pc = "closed"]
    /\ UNCHANGED <<input_file, parser_vars, writer_vars, pc, blocks, cpu_vars,
                   asm>>

\* the lines of the first run
TwoVocabulary ==
    { <<"gt">>, <<"push", "static", Numeral(0)>>,
      <<"pop", "static", Numeral(0)>>, <<"label", "L">> }

\* the lines of the second run
PeerVocabulary == { <<"gt">>, <<"push", "static", Numeral(0)>> }

InitTwo ==
    /\ InitWith(InputFiles, SeqsUpTo(TwoVocabulary, MaxCmds))
    /\ peer \in { [NoPeer EXCEPT !.input_file = f, !.lines = l] :
                    f \in InputFiles, l \in SeqsUpTo(PeerVocabulary, MaxCmds) }
    /\ asm = NoAssembler

NextTwo ==
    \/ Next
    \/ PeerNew
    \/ PeerSetFilename
    \/ PeerStep
    \/ PeerClose

SpecTwo == InitTwo /\ [][NextTwo]_vars

(***************************************************************************)
(* C12: a control-flow command (label, goto, if-goto, function, call,      *)
(* return) appends nothing to the output, leaves the label counter as it   *)
(* is and does not abort; the commands after it are translated as if it    *)
(* were absent: the text and the counter are at every moment those of the  *)
(* lines consumed so far with the control-flow lines removed.              *)
(***************************************************************************)
IsControlFlow(parts) ==
    parts[1] \in {"label", "goto", "if-goto", "function", "call", "return"}

\* the lines of cmds that are not control-flow commands, in order
WithoutControlFlow(cmds) == SelectSeq(cmds, LAMBDA parts : ~IsControlFlow(parts))

\* the step consumes a control-flow command
ControlFlowStep ==
    /\ current_line' = current_line + 1
    /\ IsControlFlow(lines[current_line + 1])

C12_ControlFlowSkipped ==
    /\ [][ControlFlowStep =>
            /\ output_file' = output_file
            /\ label_counter' = label_counter
            /\ pc' = "loop"]_vars
    /\ [](LET alone == translate(WithoutControlFlow(SubSeq(lines, 1,
                                                            current_line)),
                                 filename, 0, <<>>)
          IN  /\ output_file = alone.text
              /\ label_counter = alone.label_counter
              /\ pc = "panicked" <=> ~alone.ok)

\* a control-flow command was skipped and the eq after it translated with
\* the label suffix 0
C12_Witness ==
    /\ pc = "closed"
    /\ Len(lines) = 2
    /\ IsControlFlow(lines[1])
    /\ lines[2] = <<"eq">>
    /\ Label("EQ", 0) \in { output_file[i] : i \in DOMAIN output_file }

(***************************************************************************)
(* C13: for an input of arithmetic and push/pop commands the output is the *)
(* concatenation, in input order, of one block per command; each block     *)
(* opens with the echo of its own command, and its text is the text that   *)
(* command gets from its unit name and the label counter alone, whatever   *)
(* the commands before and after it.                                       *)
(***************************************************************************)
\* the text written for the k-th command
BlockText(k) == SubSeq(output_file, blocks[k].from + 1, blocks[k].to)

\* the comparison commands among the first n lines
ComparisonsBefore(n) ==
    Cardinality({ j \in 1..n : IsComparison(lines[j]) })

C13_OneBlockPerCommand ==
    (\A j \in 1..Len(lines) : ~IsControlFlow(lines[j])) =>
       /\ \A k \in 1..Len(blocks) :
             /\ blocks[k].from = (IF k = 1 THEN 0 ELSE blocks[k - 1].to)
             /\ blocks[k].ok =>
                  /\ blocks[k].to > blocks[k].from
                  /\ BlockText(k)[1] = Echo(lines[k])
                  /\ BlockText(k)
                       = Dispatch(lines[k], filename,
                                  ComparisonsBefore(k - 1)).text
                  /\ \A i \in 2..Len(BlockText(k)) :
                        ~(BlockText(k)[i].kind = "//"
                            /\ BlockText(k)[i] = Echo(lines[k]))
       /\ Len(output_file) = (IF blocks = <<>> THEN 0
                              ELSE blocks[Len(blocks)].to)
       /\ Len(blocks) = current_line
       /\ pc = "closed" => Len(blocks) = Len(lines)

\* gt and then eq were translated: two blocks, the second with suffix 1
C13_Witness ==
    /\ pc = "closed"
    /\ lines = << <<"gt">>, <<"eq">> >>
    /\ Len(blocks) = 2
    /\ BlockText(2)[1] = Echo(<<"eq">>)
    /\ Label("EQ", 1) \in { BlockText(2)[i] : i \in DOMAIN BlockText(2) }

(***************************************************************************)
(* C14: the block of push S i, for an index i that an A-instruction can    *)
(* hold (0 <= i < 32768), raises SP by 1 and stores at the old             *)
(* top-of-stack address RAM[RAM[base]+i] for local, argument, this, that,  *)
(* RAM[5+i] for temp, RAM[3+i] for pointer, the cell named <unit>.<i> for  *)
(* static and i itself for constant.                                       *)
(***************************************************************************)
IsMemoryAccess(command, parts) ==
    /\ Len(parts) = 3
    /\ parts[1] = command
    /\ parts[2] \in Segments
    /\ parse_i32(parts[3]).ok

Index(parts) == parse_i32(parts[3]).val

\* the address of the register holding the base of segment s
BaseRegister(s) ==
    CASE s = "local" -> 1
      [] s = "argument" -> 2
      [] s = "this" -> 3
      [] s = "that" -> 4

\* the address of the cell (s, i) on machine m
Cell(s, i, m) ==
    CASE s \in {"local", "argument", "this", "that"} ->
           Read(m.ram, BaseRegister(s)) + i
      [] s = "temp" -> 5 + i
      [] s = "pointer" -> 3 + i
      [] s = "static" ->
           AddressOf(output_file, filename \o "." \o ToString(i))

\* the last executed block did what a push of (s, i) is to do
PushEffect(s, i) ==
    /\ RanThrough
    /\ SP(cpu) = SP(entry) + 1
    /\ Read(cpu.ram, SP(entry)) =
         (IF s = "constant" THEN i ELSE Read(entry.ram, Cell(s, i, entry)))

C14_PushSegment ==
    (/\ executed >= 1
     /\ IsMemoryAccess("push", LastRun)
     /\ Index(LastRun) \in 0..(AddressLimit - 1))
    => PushEffect(LastRun[2], Index(LastRun))

\* the statement for every index i >= 0
C14_PushAnyIndex ==
    (/\ executed >= 1
     /\ IsMemoryAccess("push", LastRun)
     /\ Index(LastRun) >= 0)
    => PushEffect(LastRun[2], Index(LastRun))

\* push argument 1 has run with ARG = 400 and pushed RAM[401]
C14_Witness ==
    /\ executed = 1
    /\ LastRun = <<"push", "argument", Numeral(1)>>
    /\ SP(cpu) = SP(entry) + 1
    /\ Top(cpu) = Read(entry.ram, 401)
    /\ Top(cpu) = 1401

(***************************************************************************)
(* C15: the block of pop S i, for a segment other than constant and an     *)
(* index i that an A-instruction can hold (0 <= i < 32768), run on a       *)
(* non-empty stack lowers SP by 1 and stores the former top of the stack   *)
(* in the cell of (S, i): RAM[RAM[base]+i] with the base read before the   *)
(* pop, RAM[5+i] for temp, RAM[3+i] for pointer, the cell named <unit>.<i> *)
(* for static; the static block does not go through R13.                   *)
(***************************************************************************)
\* the text of the last executed block
LastText == SubSeq(output_file, blocks[executed].from + 1, blocks[executed].to)

\* the last executed block did what a pop to (s, i) is to do
PopEffect(s, i) ==
    /\ RanThrough
    /\ SP(cpu) = SP(entry) - 1
    /\ Read(cpu.ram, Cell(s, i, entry)) = Right
    /\ s = "static" =>
         /\ At("R13") \notin { LastText[n] : n \in DOMAIN LastText }
         /\ Read(cpu.ram, 13) = Read(entry.ram, 13)
         /\ Len(trace) = 6

C15_PopSegment ==
    (/\ executed >= 1
     /\ IsMemoryAccess("pop", LastRun)
     /\ LastRun[2] # "constant"
     /\ Index(LastRun) \in 0..(AddressLimit - 1)
     /\ Depth(entry) >= 1)
    => PopEffect(LastRun[2], Index(LastRun))

\* the statement for every index i >= 0
C15_PopAnyIndex ==
    (/\ executed >= 1
     /\ IsMemoryAccess("pop", LastRun)
     /\ LastRun[2] # "constant"
     /\ Index(LastRun) >= 0
     /\ Depth(entry) >= 1)
    => PopEffect(LastRun[2], Index(LastRun))

\* pop that 1 has run with THAT = 3010 and a top of stack of 32768, which
\* is now in RAM[3011]
C15_Witness ==
    /\ executed = 1
    /\ LastRun = <<"pop", "that", Numeral(1)>>
    /\ Right = 32768
    /\ SP(cpu) = SP(entry) - 1
    /\ Read(cpu.ram, 3011) = 32768
    /\ Read(entry.ram, 3011) = 4011

(***************************************************************************)
(* C16: for every segment S other than constant and every valid index i,   *)
(* the block of push S i followed by the block of pop S i leaves SP at the *)
(* value it had before the push.                                           *)
(***************************************************************************)
\* the input is a push and the pop of the same segment and index, other
\* than constant, and both blocks have been executed
PushPopRan ==
    /\ executed = 2
    /\ Len(lines) = 2
    /\ IsMemoryAccess("push", lines[1])
    /\ lines[1][2] # "constant"
    /\ Index(lines[1]) \in 0..(AddressLimit - 1)
    /\ lines[2] = <<"pop", lines[1][2], lines[1][3]>>

C16_DepthNeutral ==
    PushPopRan =>
       /\ RanThrough
       /\ SP(entry) = SP(boot) + 1
       /\ SP(cpu) = SP(boot)

\* push static 1, pop static 1 have run: SP went up by one and came back
C16_Witness ==
    /\ PushPopRan
    /\ lines = PushThenPop("static", 1)
    /\ SP(entry) = SP(boot) + 1
    /\ SP(cpu) = SP(boot)

(***************************************************************************)
(* C17: for every segment S other than constant and every valid index i,   *)
(* push S i followed by pop S i leaves every memory cell with the value it *)
(* had before the push, except SP, the scratch registers R13 and R14, and  *)
(* the cell at the old top-of-stack address, which keeps the pushed value  *)
(* above the stack.                                                        *)
(***************************************************************************)
\* the cells that differ between the machine as started and the machine now
ChangedCells ==
    { a \in DOMAIN cpu.ram \cup DOMAIN boot.ram :
        Read(cpu.ram, a) # Read(boot.ram, a) }

C17_Frame ==
    PushPopRan => ChangedCells \subseteq {0, 13, 14, SP(boot)}

\* the statement with SP, R13 and R14 as the only cells excepted
C17_FrameAllCells ==
    PushPopRan => ChangedCells \subseteq {0, 13, 14}

\* push local 0, pop local 0 have run: R13 holds the address 300 and the
\* cell above the stack the pushed value, everything else is as before
C17_Witness ==
    /\ PushPopRan
    /\ lines = PushThenPop("local", 0)
    /\ ChangedCells = {13, SP(boot)}
    /\ Read(cpu.ram, 13) = 300
    /\ Read(cpu.ram, SP(boot)) = 1300

(***************************************************************************)
(* C18: two consecutive neg blocks executed on a stack whose top is x, for *)
(* every 16-bit x including the most negative value, leave x on top and SP *)
(* unchanged; the translator writes two separate blocks, one per command.  *)
(***************************************************************************)
NegTwice == << <<"neg">>, <<"neg">> >>

C18_NegTwice ==
    lines = NegTwice =>
       /\ pc # "panicked"
       /\ executed >= 1 =>
            (RanThrough /\ Top(cpu) = (IF executed = 1
                                       THEN (WordSize - Top(boot)) % WordSize
                                       ELSE Top(boot)))
       /\ executed = 2 => SP(cpu) = SP(boot)
       /\ pc = "closed" =>
            /\ Len(blocks) = 2
            /\ blocks[1].from = 0
            /\ blocks[1].to > 0
            /\ blocks[2].from = blocks[1].to
            /\ blocks[2].to = Len(output_file)
            /\ BlockText(1)[1] = Echo(<<"neg">>)
            /\ BlockText(2) = BlockText(1)

\* both neg blocks have run on 1: the first left -1, the second 1 again
C18_Witness ==
    /\ lines = NegTwice
    /\ executed = 2
    /\ Top(boot) = 1
    /\ Top(entry) = WordSize - 1
    /\ Top(cpu) = 1

(***************************************************************************)
(* C19: two CodeWriter instances have their own label counters and unit    *)
(* names: however the steps of two runs interleave, the text, the counter  *)
(* and the unit name of each are those its own lines give when translated  *)
(* alone.                                                                  *)
(***************************************************************************)
\* what translating the first n of the lines cmds alone gives for path
Alone(path, cmds, n) ==
    translate(SubSeq(cmds, 1, n), set_filename(path), 0, <<>>)

C19_IndependentInstances ==
    /\ pc # "created" =>
         /\ filename = set_filename(input_file)
         /\ output_file = Alone(input_file, lines, current_line).text
         /\ label_counter = Alone(input_file, lines, current_line).label_counter
    /\ peer.pc \notin {"absent", "created"} =>
         /\ peer.filename = set_filename(peer.input_file)
         /\ peer.output_file
              = Alone(peer.input_file, peer.lines, peer.current_line).text
         /\ peer.label_counter
              = Alone(peer.input_file, peer.lines,
                      peer.current_line).label_counter

\* both runs have translated comparisons under different unit names, the
\* second having started while the first was already counting
C19_Witness ==
    /\ pc = "closed"
    /\ peer.pc = "closed"
    /\ label_counter = 2
    /\ peer.label_counter = 2
    /\ peer.born = 1
    /\ filename # peer.filename
    /\ Label("GT", 1) \in { output_file[i] : i \in DOMAIN output_file }
    /\ Label("GT", 0) \in { peer.output_file[i] : i \in DOMAIN peer.output_file }
    /\ Label("GT", 1) \in { peer.output_file[i] : i \in DOMAIN peer.output_file }

(***************************************************************************)
(* C20: translation is deterministic and restartable: two runs started     *)
(* from freshly created contexts on the same lines and the same unit name  *)
(* write the same text, and the label suffixes of a run start at 0 however *)
(* many comparisons a run before it has translated.                        *)
(***************************************************************************)
\* the lines of text that define a label and have no label line before them
FirstLabels(text) ==
    { i \in DOMAIN text :
        /\ text[i].kind = "L"
        /\ \A j \in 1..(i - 1) : text[j].kind # "L" }

C20_Restartable ==
    /\ (/\ pc \notin {"created"}
        /\ peer.pc \notin {"absent", "created"}
        /\ peer.lines = lines
        /\ peer.filename = filename
        /\ peer.current_line = current_line)
       => /\ peer.output_file = output_file
          /\ peer.label_counter = label_counter
          /\ (peer.pc = "panicked") <=> (pc = "panicked")
    /\ peer.pc = "created" => peer.label_counter = 0
    /\ \A i \in FirstLabels(peer.output_file) :
          peer.output_file[i].num = << 0 >>
    /\ \A i \in FirstLabels(output_file) : output_file[i].num = << 0 >>

\* the second run was created after the first had translated gt, gt, and
\* has translated the same lines into the same text, its labels from 0
C20_Witness ==
    /\ pc = "closed"
    /\ lines = << <<"gt">>, <<"gt">> >>
    /\ label_counter = 2
    /\ peer.born = 2
    /\ peer.pc = "closed"
    /\ peer.lines = lines
    /\ peer.filename = filename
    /\ peer.output_file = output_file
    /\ FirstLabels(peer.output_file) # {}
    /\ Label("ENDGT", 1)
         \in { peer.output_file[i] : i \in DOMAIN peer.output_file }

(***************************************************************************)
(* C21: the unit name of a run is set exactly once, in the step that       *)
(* leaves the created state, before any command is dispatched, and is kept *)
(* until the file is closed; every static access of the run is lowered to  *)
(* a symbol with that one unit name as its prefix, none with the empty     *)
(* name the writer is created with.                                        *)
(***************************************************************************)
\* the symbols of numbered A-lines that are not static cells: literals and
\* the labels of comparisons
NonStaticSyms == {""} \cup { p \o label_prefix(j) :
                               p \in {"", "END"}, j \in {"JEQ", "JGT", "JLT"} }

\* the lines of a text that address a static cell
StaticRefs(text) ==
    { i \in DOMAIN text :
        /\ text[i].kind = "A"
        /\ text[i].num # <<>>
        /\ text[i].sym \notin NonStaticSyms }

\* the commands translated so far that access the static segment
StaticCommands ==
    { k \in DOMAIN blocks :
        /\ blocks[k].ok
        /\ command_type(lines[k]) \in {"Push", "Pop"}
        /\ arg1(lines[k]).ok
        /\ arg1(lines[k]).val = "static" }

C21_UnitNameSetOnce ==
    /\ [](pc = "created"
            => filename = "" /\ current_line = 0 /\ blocks = <<>>)
    /\ [](pc # "created" => filename = set_filename(input_file))
    /\ [][filename' # filename
            => /\ pc = "created"
               /\ pc' = "loop"
               /\ current_line = 0
               /\ filename' = set_filename(input_file)]_vars
    /\ [](\A i \in StaticRefs(output_file) :
             /\ output_file[i].sym = set_filename(input_file) \o "."
             /\ output_file[i].sym # ".")
    /\ [](\A k \in StaticCommands :
             \E i \in StaticRefs(output_file) :
                i > blocks[k].from /\ i <= blocks[k].to)

\* a closed run of d/B.t.vm that pushed from and popped to static cells, both
\* lowered under the unit name B.t
C21_Witness ==
    /\ pc = "closed"
    /\ filename = "B.t"
    /\ Cardinality(StaticCommands) = 2
    /\ { command_type(lines[k]) : k \in StaticCommands } = {"Push", "Pop"}
    /\ Cardinality(StaticRefs(output_file)) = 2
    /\ \A i \in StaticRefs(output_file) : output_file[i].sym = "B.t."

(***************************************************************************)
(* The assembler of project6 as a state machine.  main reads the lines and *)
(* creates the symbol table, first_pass enters the labels, second_pass     *)
(* writes one word per command it encodes.  A word is its sixteen binary   *)
(* digits, first digit first.                                              *)
(***************************************************************************)
vm_vars == <<input_file, lines, current_line, cached_parts, output_file,
             label_counter, filename, pc, blocks, cpu, entry, trace, boot,
             executed, peer>>

\* the longest assembly file read
MaxAsmLines == 3

\* the longest sequence of calls made on a symbol table
MaxCalls == 3

\* SymbolTable::get_address looking among the user symbols first
get_address_user_first(user_symbols, name) ==
    IF name \in DOMAIN user_symbols THEN user_symbols[name]
    ELSE IF name \in DOMAIN PREDEFINED_SYMBOLS THEN PREDEFINED_SYMBOLS[name]
    ELSE 0

\* SymbolTable::get_address
get_address(user_symbols, name) ==
    IF name \in DOMAIN PREDEFINED_SYMBOLS THEN PREDEFINED_SYMBOLS[name]
    ELSE IF name \in DOMAIN user_symbols THEN user_symbols[name]
    ELSE 0

\* code.rs: DEST_MAP
DEST_MAP ==
    ("" :> <<0, 0, 0>>) @@ ("M" :> <<0, 0, 1>>) @@ ("D" :> <<0, 1, 0>>)
      @@ ("MD" :> <<0, 1, 1>>) @@ ("A" :> <<1, 0, 0>>)
      @@ ("AM" :> <<1, 0, 1>>) @@ ("AD" :> <<1, 1, 0>>)
      @@ ("AMD" :> <<1, 1, 1>>)

\* code.rs: COMP_MAP
COMP_MAP ==
    ("0" :> <<0, 1, 0, 1, 0, 1, 0>>) @@ ("1" :> <<0, 1, 1, 1, 1, 1, 1>>)
      @@ ("-1" :> <<0, 1, 1, 1, 0, 1, 0>>) @@ ("D" :> <<0, 0, 0, 1, 1, 0, 0>>)
      @@ ("A" :> <<0, 1, 1, 0, 0, 0, 0>>) @@ ("!D" :> <<0, 0, 0, 1, 1, 0, 1>>)
      @@ ("!A" :> <<0, 1, 1, 0, 0, 0, 1>>) @@ ("-D" :> <<0, 0, 0, 1, 1, 1, 1>>)
      @@ ("-A" :> <<0, 1, 1, 0, 0, 1, 1>>)
      @@ ("D+1" :> <<0, 0, 1, 1, 1, 1, 1>>)
      @@ ("A+1" :> <<0, 1, 1, 0, 1, 1, 1>>)
      @@ ("D-1" :> <<0, 0, 0, 1, 1, 1, 0>>)
      @@ ("A-1" :> <<0, 1, 1, 0, 0, 1, 0>>)
      @@ ("D+A" :> <<0, 0, 0, 0, 0, 1, 0>>)
      @@ ("D-A" :> <<0, 0, 1, 0, 0, 1, 1>>)
      @@ ("A-D" :> <<0, 0, 0, 0, 1, 1, 1>>)
      @@ ("D&A" :> <<0, 0, 0, 0, 0, 0, 0>>)
      @@ ("D|A" :> <<0, 0, 1, 0, 1, 0, 1>>)
      @@ ("M" :> <<1, 1, 1, 0, 0, 0, 0>>) @@ ("!M" :> <<1, 1, 1, 0, 0, 0, 1>>)
      @@ ("-M" :> <<1, 1, 1, 0, 0, 1, 1>>)
      @@ ("M+1" :> <<1, 1, 1, 0, 1, 1, 1>>)
      @@ ("M-1" :> <<1, 1, 1, 0, 0, 1, 0>>)
      @@ ("D+M" :> <<1, 0, 0, 0, 0, 1, 0>>)
      @@ ("D-M" :> <<1, 0, 1, 0, 0, 1, 1>>)
      @@ ("M-D" :> <<1, 0, 0, 0, 1, 1, 1>>)
      @@ ("D&M" :> <<1, 0, 0, 0, 0, 0, 0>>)
      @@ ("D|M" :> <<1, 0, 1, 0, 1, 0, 1>>)

\* code.rs: JUMP_MAP
JUMP_MAP ==
    ("" :> <<0, 0, 0>>) @@ ("JGT" :> <<0, 0, 1>>) @@ ("JEQ" :> <<0, 1, 0>>)
      @@ ("JGE" :> <<0, 1, 1>>) @@ ("JLT" :> <<1, 0, 0>>)
      @@ ("JNE" :> <<1, 0, 1>>) @@ ("JLE" :> <<1, 1, 0>>)
      @@ ("JMP" :> <<1, 1, 1>>)

DEFAULT_DEST == <<0, 0, 0>>

DEFAULT_COMP == <<0, 1, 0, 1, 0, 1, 0>>

DEFAULT_JUMP == <<0, 0, 0>>

\* code::dest
code_dest(mnemonic) ==
    IF mnemonic \in DOMAIN DEST_MAP THEN DEST_MAP[mnemonic] ELSE DEFAULT_DEST

\* code::comp
code_comp(mnemonic) ==
    IF mnemonic \in DOMAIN COMP_MAP THEN COMP_MAP[mnemonic] ELSE DEFAULT_COMP

\* code::jump
code_jump(mnemonic) ==
    IF mnemonic \in DOMAIN JUMP_MAP THEN JUMP_MAP[mnemonic] ELSE DEFAULT_JUMP

\* code::encode_c_instruction: "111", then comp, dest and jump
encode_c_instruction(dest_mnemonic, comp_mnemonic, jump_mnemonic) ==
    <<1, 1, 1>> \o code_comp(comp_mnemonic) \o code_dest(dest_mnemonic)
      \o code_jump(jump_mnemonic)

\* code::encode_a_instruction: the u16 address formatted with {:016b}
encode_a_instruction(address) == Bits(address, 16)

\* ParserLines::advance from the line at cursor: the index of the next line
\* that is not empty once its comment is stripped, 0 when there is none
advance(ls, cursor) ==
    LET rest == { i \in (cursor + 1)..Len(ls) : ls[i].kind \in {"A", "C", "L"} }
    IN  IF rest = {} THEN 0
        ELSE CHOOSE i \in rest : \A j \in rest : i <= j

\* a label line without a number in its name
LabelLine(s) == Line("L", s, <<>>, "", "", "")

\* first_pass, the L-command arm entering the label one address too far
FirstPassLabel_counted ==
    /\ asm.pc = "first"
    /\ advance(asm.lines, asm.cursor) # 0
    /\ LET n == advance(asm.lines, asm.cursor) IN
       /\ asm.lines[n].kind = "L"
       /\ asm' = [asm EXCEPT
                    !.cursor = n,
                    !.rom_address = Word(asm.rom_address + 1),
                    !.user_symbols = add_entry(asm.user_symbols,
                                               Text(asm.lines[n]),
                                               Word(asm.rom_address + 1))]
    /\ UNCHANGED vm_vars

\* first_pass, lines 51-55: a label is entered at the current ROM address
FirstPassLabel ==
    /\ asm.pc = "first"
    /\ advance(asm.lines, asm.cursor) # 0
    /\ LET n == advance(asm.lines, asm.cursor) IN
       /\ asm.lines[n].kind = "L"
       /\ asm' = [asm EXCEPT
                    !.cursor = n,
                    !.user_symbols = add_entry(asm.user_symbols,
                                               Text(asm.lines[n]),
                                               asm.rom_address)]
    /\ UNCHANGED vm_vars

\* first_pass, lines 56-59: an instruction takes one ROM address
FirstPassCommand ==
    /\ asm.pc = "first"
    /\ advance(asm.lines, asm.cursor) # 0
    /\ LET n == advance(asm.lines, asm.cursor) IN
       /\ asm.lines[n].kind \in {"A", "C"}
       /\ asm' = [asm EXCEPT !.cursor = n,
                             !.rom_address = Word(asm.rom_address + 1)]
    /\ UNCHANGED vm_vars

\* first_pass returns; main creates the writer and second_pass begins with
\* its own parser and ram_address = 16
FirstPassDone ==
    /\ asm.pc = "first"
    /\ advance(asm.lines, asm.cursor) = 0
    /\ asm' = [asm EXCEPT !.pc = "second", !.cursor = 0, !.ram_address = 16]
    /\ UNCHANGED vm_vars

\* second_pass, lines 83-93: an A-command
SecondPassA ==
    /\ asm.pc = "second"
    /\ advance(asm.lines, asm.cursor) # 0
    /\ LET n == advance(asm.lines, asm.cursor)
           l == asm.lines[n]
           r == IF IsLiteral(l)
                THEN [addr |-> l.num[1], user_symbols |-> asm.user_symbols,
                      next_address |-> asm.ram_address]
                ELSE get_or_insert(asm.user_symbols, Text(l), asm.ram_address)
       IN
       /\ l.kind = "A"
       /\ asm' = [asm EXCEPT
                    !.cursor = n,
                    !.user_symbols = r.user_symbols,
                    !.ram_address = r.next_address,
                    !.hack = Append(asm.hack, encode_a_instruction(r.addr))]
    /\ UNCHANGED vm_vars

\* second_pass, lines 94-101: a C-command
SecondPassC ==
    /\ asm.pc = "second"
    /\ advance(asm.lines, asm.cursor) # 0
    /\ LET n == advance(asm.lines, asm.cursor)
           l == asm.lines[n]
       IN
       /\ l.kind = "C"
       /\ asm' = [asm EXCEPT
                    !.cursor = n,
                    !.hack = Append(asm.hack,
                                    encode_c_instruction(l.dest, l.comp,
                                                         l.jump))]
    /\ UNCHANGED vm_vars

\* second_pass, lines 102-104: an L-command panics
SecondPassL ==
    /\ asm.pc = "second"
    /\ advance(asm.lines, asm.cursor) # 0
    /\ LET n == advance(asm.lines, asm.cursor) IN
       /\ asm.lines[n].kind = "L"
       /\ asm' = [asm EXCEPT !.cursor = n, !.pc = "panicked"]
    /\ UNCHANGED vm_vars

\* second_pass, lines 108-109: the writer is flushed
SecondPassDone ==
    /\ asm.pc = "second"
    /\ advance(asm.lines, asm.cursor) = 0
    /\ asm' = [asm EXCEPT !.pc = "done"]
    /\ UNCHANGED vm_vars

\* the lines of the assembly files read
AsmVocabulary ==
    { At("SP"), At("i"), At("j"), At("LOOP"), AtN("", 5), AtN("", 40000),
      Set("D", "M"), Jmp("D", "JGT"), LabelLine("LOOP"), LabelLine("SP"),
      Comment("c"), Blank }

\* the translator and the machine, not started
InitIdle ==
    /\ input_file = <<>>
    /\ lines = <<>>
    /\ current_line = 0
    /\ cached_parts = <<>>
    /\ output_file = <<>>
    /\ label_counter = 0
    /\ filename = ""
    /\ pc = "off"
    /\ blocks = <<>>
    /\ cpu = PowerOff
    /\ entry = PowerOff
    /\ trace = <<>>
    /\ boot = PowerOff
    /\ executed = -1
    /\ peer = NoPeer

\* main, lines 136-142: the lines are read, the symbol table is created and
\* first_pass begins at ROM address 0
InitAsm ==
    /\ InitIdle
    /\ asm \in { [NoAssembler EXCEPT !.pc = "first", !.lines = ls] :
                   ls \in SeqsUpTo(AsmVocabulary, MaxAsmLines) }

NextAsm ==
    \/ FirstPassLabel
    \/ FirstPassCommand
    \/ FirstPassDone
    \/ SecondPassA
    \/ SecondPassC
    \/ SecondPassL
    \/ SecondPassDone

SpecAsm == InitAsm /\ [][NextAsm]_vars

(***************************************************************************)
(* The symbol table used by a caller of the library: a table created by    *)
(* SymbolTable::new, the caller's next free address starting at 16, and    *)
(* calls of add_entry, get_or_insert and get_address in any order.  Each   *)
(* call is entered in asm.calls with its symbol and the address it was     *)
(* given (add_entry) or returned.                                          *)
(***************************************************************************)
TableSymbols == {"SP", "R5", "i", "j"}

TableAddresses == {7, 100}

Call(op, name, address) == [op |-> op, symbol |-> name, address |-> address]

\* SymbolTable::add_entry called
CallAddEntry ==
    /\ asm.pc = "table"
    /\ Len(asm.calls) < MaxCalls
    /\ \E name \in TableSymbols, address \in TableAddresses :
          asm' = [asm EXCEPT
                    !.user_symbols = add_entry(asm.user_symbols, name, address),
                    !.calls = Append(asm.calls,
                                     Call("add_entry", name, address))]
    /\ UNCHANGED vm_vars

\* SymbolTable::get_or_insert called with the caller's next free address
CallGetOrInsert ==
    /\ asm.pc = "table"
    /\ Len(asm.calls) < MaxCalls
    /\ \E name \in TableSymbols :
          LET r == get_or_insert(asm.user_symbols, name, asm.ram_address)
          IN  asm' = [asm EXCEPT
                        !.user_symbols = r.user_symbols,
                        !.ram_address = r.next_address,
                        !.calls = Append(asm.calls,
                                         Call("get_or_insert", name, r.addr))]
    /\ UNCHANGED vm_vars

\* SymbolTable::get_address called
CallGetAddress ==
    /\ asm.pc = "table"
    /\ Len(asm.calls) < MaxCalls
    /\ \E name \in TableSymbols :
          asm' = [asm EXCEPT
                    !.calls = Append(asm.calls,
                                     Call("get_address", name,
                                          get_address(asm.user_symbols,
                                                      name)))]
    /\ UNCHANGED vm_vars

InitTable ==
    /\ InitIdle
    /\ asm = [NoAssembler EXCEPT !.pc = "table", !.ram_address = 16]

NextTable ==
    \/ CallAddEntry
    \/ CallGetOrInsert
    \/ CallGetAddress

SpecTable == InitTable /\ [][NextTable]_vars

\* the step is a call of op: the call entered last
Called(op) ==
    /\ Len(asm'.calls) = Len(asm.calls) + 1
    /\ asm'.calls[Len(asm'.calls)].op = op

(***************************************************************************)
(* C22: get_or_insert on a symbol that is neither predefined nor present   *)
(* stores it at next_address, returns that address and increases           *)
(* next_address by exactly 1; on a present symbol it returns the stored    *)
(* address and leaves the table and next_address as they were; distinct    *)
(* new symbols get 16, 17, ... in the order of their first appearance.     *)
(***************************************************************************)
\* the calls that inserted a symbol: get_or_insert of a name that is not
\* predefined and that no earlier call had entered
Inserting ==
    { c \in DOMAIN asm.calls :
        /\ asm.calls[c].op = "get_or_insert"
        /\ asm.calls[c].symbol \notin DOMAIN PREDEFINED_SYMBOLS
        /\ \A d \in 1..(c - 1) :
              \/ asm.calls[d].op = "get_address"
              \/ asm.calls[d].symbol # asm.calls[c].symbol }

C22_GetOrInsert ==
    /\ [][Called("get_or_insert") =>
            LET name == asm'.calls[Len(asm'.calls)].symbol
                addr == asm'.calls[Len(asm'.calls)].address
            IN  /\ (/\ name \notin DOMAIN PREDEFINED_SYMBOLS
                    /\ name \notin DOMAIN asm.user_symbols)
                   => /\ addr = asm.ram_address
                      /\ DOMAIN asm'.user_symbols
                           = DOMAIN asm.user_symbols \cup {name}
                      /\ asm'.user_symbols[name] = asm.ram_address
                      /\ \A n \in DOMAIN asm.user_symbols :
                            asm'.user_symbols[n] = asm.user_symbols[n]
                      /\ asm'.ram_address = asm.ram_address + 1
                /\ (/\ name \notin DOMAIN PREDEFINED_SYMBOLS
                    /\ name \in DOMAIN asm.user_symbols)
                   => /\ addr = asm.user_symbols[name]
                      /\ asm'.user_symbols = asm.user_symbols
                      /\ asm'.ram_address = asm.ram_address]_vars
    /\ [](asm.pc = "table" =>
            \A c \in Inserting :
               asm.calls[c].address
                 = 16 + Cardinality({ d \in Inserting : d < c }))

\* i and j were inserted in this order at 16 and 17, and i looked up again
C22_Witness ==
    /\ asm.pc = "table"
    /\ asm.calls = << Call("get_or_insert", "i", 16),
                      Call("get_or_insert", "j", 17),
                      Call("get_or_insert", "i", 16) >>
    /\ asm.ram_address = 18
    /\ asm.user_symbols = add_entry(add_entry(<<>>, "i", 16), "j", 17)

(***************************************************************************)
(* C23: get_or_insert on any of the 23 predefined symbols returns the      *)
(* predefined address, does not increase next_address and adds nothing to  *)
(* the user symbols.                                                       *)
(***************************************************************************)
C23_PredefinedNotInserted ==
    /\ [](Cardinality(DOMAIN PREDEFINED_SYMBOLS) = 23)
    /\ [](asm.pc = "table" =>
            \A name \in DOMAIN PREDEFINED_SYMBOLS :
               get_or_insert(asm.user_symbols, name, asm.ram_address)
                 = [addr |-> PREDEFINED_SYMBOLS[name],
                    user_symbols |-> asm.user_symbols,
                    next_address |-> asm.ram_address])
    /\ [][(/\ Called("get_or_insert")
           /\ asm'.calls[Len(asm'.calls)].symbol
                \in DOMAIN PREDEFINED_SYMBOLS)
          => /\ asm'.calls[Len(asm'.calls)].address
                  = PREDEFINED_SYMBOLS[asm'.calls[Len(asm'.calls)].symbol]
             /\ asm'.ram_address = asm.ram_address
             /\ asm'.user_symbols = asm.user_symbols]_vars

\* get_or_insert of R5 on an empty table returned 5 and inserted nothing,
\* the variable inserted after it got address 16
C23_Witness ==
    /\ asm.pc = "table"
    /\ asm.calls = << Call("get_or_insert", "R5", 5),
                      Call("get_or_insert", "i", 16) >>
    /\ DOMAIN asm.user_symbols = {"i"}
    /\ asm.ram_address = 17

(***************************************************************************)
(* C29: a predefined symbol always resolves to its predefined address:     *)
(* after any sequence of add_entry and get_or_insert calls, add_entry of a *)
(* predefined name with another address included, get_address and          *)
(* get_or_insert return the predefined value.                              *)
(***************************************************************************)
C29_PredefinedResolves ==
    /\ asm.pc = "table" =>
         \A name \in DOMAIN PREDEFINED_SYMBOLS :
            /\ get_address(asm.user_symbols, name) = PREDEFINED_SYMBOLS[name]
            /\ get_or_insert(asm.user_symbols, name, asm.ram_address).addr
                 = PREDEFINED_SYMBOLS[name]
    /\ \A c \in DOMAIN asm.calls :
          (/\ asm.calls[c].op \in {"get_address", "get_or_insert"}
           /\ asm.calls[c].symbol \in DOMAIN PREDEFINED_SYMBOLS)
          => asm.calls[c].address = PREDEFINED_SYMBOLS[asm.calls[c].symbol]

\* SP was entered by add_entry at 7, and both lookups still returned 0
C29_Witness ==
    /\ asm.pc = "table"
    /\ asm.calls = << Call("add_entry", "SP", 7),
                      Call("get_address", "SP", 0),
                      Call("get_or_insert", "SP", 0) >>
    /\ asm.user_symbols["SP"] = 7
    /\ asm.ram_address = 16

(***************************************************************************)
(* C25: after the first pass each label is bound to the number of A- and   *)
(* C-commands that precede it: label, comment and blank lines do not       *)
(* advance the ROM address, each A- or C-command advances it by 1.  (Of    *)
(* two label lines with the same name the later one is the one bound.)     *)
(***************************************************************************)
\* the number of A- and C-commands among the lines from..to of the file
CommandsIn(from, to) ==
    Cardinality({ i \in from..to : i \in DOMAIN asm.lines
                                   /\ IsInstruction(asm.lines[i]) })

\* the label lines whose name no later label line defines again
BoundLabels ==
    { i \in DOMAIN asm.lines :
        /\ asm.lines[i].kind = "L"
        /\ \A j \in (i + 1)..Len(asm.lines) :
              asm.lines[j].kind = "L"
                => Text(asm.lines[j]) # Text(asm.lines[i]) }

C25_LabelAddresses ==
    /\ [][(asm.pc = "first" /\ asm'.pc = "first" /\ asm' # asm)
          => /\ asm'.cursor > asm.cursor
             /\ \A i \in (asm.cursor + 1)..(asm'.cursor - 1) :
                   asm.lines[i].kind \in {"//", ""}
             /\ asm'.rom_address
                  = asm.rom_address
                      + (IF asm.lines[asm'.cursor].kind \in {"A", "C"}
                         THEN 1 ELSE 0)]_vars
    /\ [](asm.pc = "first" => asm.rom_address = CommandsIn(1, asm.cursor))
    /\ [](asm.pc \in {"second", "done", "panicked"}
            => /\ asm.rom_address = CommandsIn(1, Len(asm.lines))
               /\ \A i \in BoundLabels :
                    /\ Text(asm.lines[i]) \in DOMAIN asm.user_symbols
                    /\ asm.user_symbols[Text(asm.lines[i])]
                         = CommandsIn(1, i - 1))
    /\ [](asm.pc = "second" /\ asm.cursor = 0
            => /\ asm.user_symbols = first_pass(asm.lines, 0, <<>>)
               /\ DOMAIN asm.user_symbols
                    = { Text(asm.lines[i]) : i \in BoundLabels })

\* the first pass is over a file with a command, a comment and then a label:
\* the label is bound to 1
C25_Witness ==
    /\ asm.pc = "second"
    /\ asm.cursor = 0
    /\ asm.lines = << AtN("", 5), Comment("c"), LabelLine("LOOP") >>
    /\ asm.rom_address = 1
    /\ asm.user_symbols["LOOP"] = 1

(***************************************************************************)
(* C24: in the second pass an L-command is skipped: it produces no word    *)
(* and does not abort the pass, the A- and C-commands after it are still   *)
(* encoded, and the output has one word per A- or C-command of the file.   *)
(***************************************************************************)
C24_LabelSkipped ==
    /\ [](asm.pc # "panicked")
    /\ [][(/\ asm.pc = "second"
           /\ asm'.cursor # asm.cursor
           /\ asm.lines[asm'.cursor].kind = "L")
          => /\ asm'.hack = asm.hack
             /\ asm'.pc = "second"]_vars
    /\ [](asm.pc \in {"second", "done"}
            => Len(asm.hack) = CommandsIn(1, asm.cursor))
    /\ [](asm.pc = "done" => Len(asm.hack) = CommandsIn(1, Len(asm.lines)))

(***************************************************************************)
(* C30: every word the second pass writes for an A-command is sixteen      *)
(* binary digits of which the first is 0 and the other fifteen are the     *)
(* resolved address, for every operand the pass accepts: every decimal     *)
(* literal that parses as u16 and every symbol.                            *)
(***************************************************************************)
\* the line of the k-th A- or C-command of the file
CommandAt(k) ==
    CHOOSE i \in DOMAIN asm.lines :
        IsInstruction(asm.lines[i]) /\ CommandsIn(1, i) = k

C30_AWordFormat ==
    \A k \in DOMAIN asm.hack :
        LET l == asm.lines[CommandAt(k)]
            address == IF IsLiteral(l) THEN l.num[1]
                       ELSE get_address(asm.user_symbols, Text(l))
        IN  l.kind = "A"
              => /\ Len(asm.hack[k]) = 16
                 /\ \A b \in 1..16 : asm.hack[k][b] \in {0, 1}
                 /\ asm.hack[k][1] = 0
                 /\ FromBits(SubSeq(asm.hack[k], 2, 16)) = address

(***************************************************************************)
(* C26: an executed gt block pushes -1 exactly when x > y and an lt block  *)
(* exactly when x < y, x the operand below and y the operand on top, both  *)
(* read as signed 16-bit numbers, the pairs whose difference overflows     *)
(* 16 bits included (x = 32767, y = -1).                                   *)
(***************************************************************************)
C26_SignedComparison ==
    (RanThrough /\ LastRun \in {<<"gt">>, <<"lt">>} /\ Depth(entry) >= 2)
    => /\ Top(cpu) \in {0, True16}
       /\ LastRun = <<"gt">>
            => (Top(cpu) = True16 <=> Signed(Left) > Signed(Right))
       /\ LastRun = <<"lt">>
            => (Top(cpu) = True16 <=> Signed(Left) < Signed(Right))

(***************************************************************************)
(* C27: the block of an arithmetic, logical or comparison command changes  *)
(* no memory cell other than SP, R13 and R14 (binary operators and         *)
(* comparisons only) and the stack cells of its operands and result: LCL,  *)
(* ARG, THIS, THAT and the cells of the segments keep their values, and    *)
(* neg and not leave R13 and R14 untouched.                                *)
(***************************************************************************)
\* the cells the last executed block left with another value than it found
BlockChanged ==
    { a \in DOMAIN cpu.ram \cup DOMAIN entry.ram :
        Read(cpu.ram, a) # Read(entry.ram, a) }

UnaryOperators == {"neg", "not"}

\* an arithmetic, logical or comparison block has been executed to its end
\* on a stack that holds its operands
ArithmeticRan ==
    /\ RanThrough
    /\ Len(LastRun) = 1
    /\ LastRun[1] \in Mnemonics
    /\ Depth(entry) >= (IF LastRun[1] \in UnaryOperators THEN 1 ELSE 2)

C27_ArithmeticFrame ==
    ArithmeticRan
    => /\ LastRun[1] \in UnaryOperators
            => /\ BlockChanged \subseteq {SP(entry) - 1}
               /\ Read(cpu.ram, 13) = Read(entry.ram, 13)
               /\ Read(cpu.ram, 14) = Read(entry.ram, 14)
       /\ LastRun[1] \notin UnaryOperators
            => BlockChanged \subseteq {0, 13, 14, SP(entry) - 2, SP(entry) - 1}
       /\ \A a \in 1..4 : Read(cpu.ram, a) = Read(entry.ram, a)
       /\ \A a \in DOMAIN entry.ram :
             ((a >= 16 /\ a < SP(entry) - 2) \/ a >= SP(entry))
               => Read(cpu.ram, a) = Read(entry.ram, a)

\* a sub block has run on 2 - 1 and left its operands in R13 and R14, its
\* result in the lower operand's cell and the segment cells as they were
C27_Witness ==
    /\ ArithmeticRan
    /\ LastRun = <<"sub">>
    /\ Left = 2
    /\ Right = 1
    /\ BlockChanged = {0, 13, 14, SP(entry) - 2}
    /\ Read(cpu.ram, 13) = 2
    /\ Read(cpu.ram, 14) = 1
    /\ Top(cpu) = 1
    /\ Read(cpu.ram, 300) = Read(entry.ram, 300)

(***************************************************************************)
(* Execution on machines whose segment pointers point into the registers:  *)
(* THAT holding its own address, the address of SP or of R13, THIS holding *)
(* its own address, LCL holding the address of SP.                         *)
(***************************************************************************)
\* a pop followed by the push of the same segment and index
PopThenPush(s, i) == << <<"pop", s, Numeral(i)>>, <<"push", s, Numeral(i)>> >>

\* register and the address it holds when the machine is started
Pointings == { <<4, 3010>>, <<4, 4>>, <<4, 0>>, <<4, 13>>, <<3, 3>>, <<1, 0>> }

AliasedMachines ==
    { [A |-> 0, D |-> 0, PC |-> 0,
       ram |-> [InitRam(sp, 1, y) EXCEPT ![p[1]] = p[2]]] :
        sp \in StackPointers, y \in {2, 32767}, p \in Pointings }

\* the machine is started with the emitted text loaded
BootAliased ==
    /\ pc = "closed"
    /\ executed = -1
    /\ cpu' \in AliasedMachines
    /\ entry' = cpu'
    /\ boot' = cpu'
    /\ trace' = <<>>
    /\ executed' = 0
    /\ UNCHANGED <<input_file, parser_vars, writer_vars, pc, blocks, peer, asm>>

AliasPrograms ==
    SeqsUpTo(Vocabulary, 1)
      \cup { PopThenPush(s, i) :
               s \in Segments \ {"constant"},
               i \in (0..MaxIndex) \cup {AddressLimit} }

InitAlias ==
    InitWith(InputFiles, AliasPrograms) /\ peer = NoPeer /\ asm = NoAssembler

NextAlias == Next \/ BootAliased \/ ExecBlock

SpecAlias == InitAlias /\ [][NextAlias]_vars

(***************************************************************************)
(* C28: for every segment S other than constant and every index i >= 0,    *)
(* pop S i followed by push S i on a non-empty stack restores SP and the   *)
(* value on top of the stack, provided the cell (S, i) resolves to is not  *)
(* SP.  As stated this is to hold as well when the cell of a base-relative *)
(* segment is the segment's own base register (pop that 0 while THAT holds *)
(* 4); it holds when that case is excepted and i is below 32768.           *)
(***************************************************************************)
\* the blocks of pop S i, push S i are being executed on a stack that was
\* not empty: the first has been run, or both
PopPushRan ==
    /\ executed \in {1, 2}
    /\ Len(lines) = 2
    /\ IsMemoryAccess("pop", lines[1])
    /\ lines[1][2] # "constant"
    /\ lines[2] = <<"push", lines[1][2], lines[1][3]>>
    /\ Depth(boot) >= 1

\* the cell the pop resolved to, on the machine as started
PoppedCell == Cell(lines[1][2], Index(lines[1]), boot)

\* the cell is the base register of the segment it was resolved through
OwnBase ==
    /\ lines[1][2] \in BaseSegments
    /\ PoppedCell = BaseRegister(lines[1][2])

\* each block ran to its end, and after the second SP and the value on top
\* of the stack are those the machine was started with
Restored ==
    /\ RanThrough
    /\ executed = 2 => /\ SP(cpu) = SP(boot)
                       /\ Top(cpu) = Top(boot)

C28_PopPushRestores ==
    (/\ PopPushRan
     /\ PoppedCell # 0
     /\ ~OwnBase
     /\ Index(lines[1]) < AddressLimit)
    => Restored

\* the statement with SP as the only cell excepted
C28_PopPushAnyCell ==
    (PopPushRan /\ PoppedCell # 0) => Restored

\* pop that 0, push that 0 have run with THAT pointing at R13: the popped
\* value went through R13 and is back on top
C28_Witness ==
    /\ PopPushRan
    /\ executed = 2
    /\ lines[1] = <<"pop", "that", Numeral(0)>>
    /\ Read(boot.ram, 4) = 13
    /\ PoppedCell = 13
    /\ Restored
    /\ Top(cpu) = 32767
    /\ Read(cpu.ram, 13) = 32767

====
